---------------------------- MODULE Spec2Model ----------------------------
(***************************************************************************)
(* Model of the CyberCypher orchestrator: the LLM provider registry and   *)
(* its failover wrapper (app/core/llm_manager.py), the Hugging Face model *)
(* health bookkeeping (app/core/hf_manager.py), the three council         *)
(* variants (app/graph/council_graph.py with app/agents/*,                *)
(* app/simple_council.py, app/mock_council.py).                           *)
(*                                                                         *)
(* Risk scores and confidences are fixed-point numbers in thousandths:    *)
(* 1000 stands for 1.0, 300 for 0.3.  Timestamps (last_check, timestamp)  *)
(* and free text (analysis, recommendation) are left out: no branch of    *)
(* the modelled code reads them.                                          *)
(***************************************************************************)
EXTENDS Integers, Sequences, FiniteSets, TLC

VARIABLES
    \* ---- LLMManager (llm_manager.py) ----
    provider_health,   \* provider -> [is_healthy, consecutive_failures]
    \* ---- HuggingFaceManager (hf_manager.py) ----
    model_health,      \* model name -> [is_healthy, consecutive_failures]
    \* ---- history of recorded outcomes, per registry entry (observer) ----
    hist,              \* entry -> sequence of "S" / "F"
    \* ---- the last registry operation and what it returned (observer) ----
    last_op,
    \* ---- failures that with_failover calls recorded on a provider since the
    \* ---- last success recorded on it (observer) ----
    unbroken_failures, \* provider -> Nat
    \* ---- with_failover.wrapper, one frame per in-flight call ----
    fo_pc,             \* call -> "idle" | "invoking" | "sleeping" | "returned" | "raised"
    attempt,           \* call -> loop variable of `for attempt in range(max_retries)`
    providers_tried,   \* call -> list of providers
    last_error,        \* call -> "none" or the exception caught last
    fo_return,         \* call -> <<>> or <<result, provider>>
    fo_raised,         \* call -> "none" or the exception that left the wrapper
    fo_log,            \* call -> what the wrapper did, in order (observer)
    \* ---- the judge's deterministic rule applied to drawn inputs ----
    jr_a, jr_s,        \* analyzer risk and skeptic risk handed to the rule
    jr_out,            \* <<>> or the three variants' [risk, verdict]
    \* ---- one council run ----
    variant,           \* "workflow" | "simple" | "mock"
    diff_report,       \* the request's diff_report: DeepDiff category -> entries
    c_pc,              \* where the run is suspended, or "idle" / "done"
    status,            \* CouncilState["status"]
    primary_analysis,  \* CouncilState / local primary_result: <<>> is {} or unset
    skeptic_critique,  \* CouncilState / local skeptic_result
    final_judgment,    \* CouncilState / local final_result
    council_opinions,  \* CouncilState["council_opinions"]
    hf_call,           \* <<>> or <<agent, model>> of the model call in flight
    invocations,       \* agents whose model call was started, in order (observer)
    replies,           \* how each model call of the run ended, in order (observer)
    last_reply,        \* <<>> or the reply of the latest model call (observer)
    result,            \* <<>> or the dict handed back to the caller
    \* ---- the orchestrator's HTTP surface and the shadow_tests table ----
    app,               \* "routes" (app/api/routes.py) | "simple_main" (simple_main.py)
    unique_test_id,    \* whether the table rejects a second row with the same test_id
    req_diff,          \* test_id -> the diff_report its requests carry
    store,             \* the rows of shadow_tests, in insertion order
    tasks,             \* the background tasks added by POST /analyze, in order
    http_log,          \* <<operation, test_id, status code>> of each request (observer)
    \* ---- one run_shadow_replay (engine/shadow_engine.py) ----
    to_json_rebuilds,  \* whether DeepDiff.to_json() serialises from its tree
    sh_pc,             \* "legacy" | "headless" | "report" | "done"
    legacy_body,       \* key -> value: what the legacy endpoint answers when it answers
    headless_body,     \* key -> value: what the headless endpoint answers when it answers
    legacy_resp,       \* local legacy_resp: a body or None
    headless_resps,    \* local headless_resps: one [resp, time, err] per attempt
    headless_resp,     \* local headless_resp: a body or None
    sh_times,          \* <<legacy_time, headless_time_avg>> in milliseconds
    sh_sent,           \* what the run handed to the store and to the orchestrator
    sh_diff,           \* <<>> or the local `diff` after the semantic check
    report             \* <<>> or the report run_shadow_replay returns

regVars     == <<provider_health, model_health, hist, last_op, unbroken_failures>>
foVars      == <<fo_pc, attempt, providers_tried, last_error, fo_return, fo_raised, fo_log>>
judgeVars   == <<jr_a, jr_s, jr_out>>
councilVars == <<variant, diff_report, c_pc, status, primary_analysis, skeptic_critique,
                 final_judgment, council_opinions, hf_call, invocations, replies, last_reply,
                 result>>
storeVars   == <<app, unique_test_id, req_diff, store, tasks, http_log>>
shadowVars  == <<to_json_rebuilds, sh_pc, legacy_body, headless_body, legacy_resp, headless_resps,
                 headless_resp, sh_times, sh_sent, sh_diff, report>>
vars        == <<regVars, foVars, judgeVars, councilVars, storeVars, shadowVars>>

None == "none"

-----------------------------------------------------------------------------
(* Bounds of the model *)

\* total number of direct mark_failure / mark_success / call_model outcomes
MaxOps == 6
\* cap on consecutive_failures in the failover specification
MaxFailures == 4
\* risks handed to the judge's rule are 0.00, 0.01, ... RiskSteps/100
RiskSteps == 100

-----------------------------------------------------------------------------
(* LLMManager *)

\* self.provider_priority
provider_priority == <<"deepseek", "mistral", "llama">>

Providers == {provider_priority[i] : i \in 1..Len(provider_priority)}

\* "Mark as unhealthy after 3 consecutive failures"
UNHEALTHY_AFTER == 3

\* settings.max_retries, settings.retry_delay_seconds
max_retries == 3
retry_delay_seconds == 2

InitHealthEntry == [is_healthy |-> TRUE, consecutive_failures |-> 0]

\* LLMManager.__init__: self.provider_health
InitProviderHealth == [p \in Providers |-> InitHealthEntry]

\* HuggingFaceManager.__init__: every agent type is assigned the same model,
\* so the dict comprehension over self.models.values() has one key.
HF_MODEL == "Qwen/Qwen2.5-7B-Instruct:together"
HFModels == {HF_MODEL}
InitModelHealth == [m \in HFModels |-> InitHealthEntry]

\* a failure that would turn the flag only past the third failure in a row
FailedEntryLate(e) ==
    LET n == e.consecutive_failures + 1
    IN  [is_healthy |-> IF n > UNHEALTHY_AFTER THEN FALSE ELSE e.is_healthy,
         consecutive_failures |-> n]

\* the entry after `consecutive_failures += 1; if >= 3: is_healthy = False`
FailedEntry(e) ==
    LET n == e.consecutive_failures + 1
    IN  [is_healthy |-> IF n >= UNHEALTHY_AFTER THEN FALSE ELSE e.is_healthy,
         consecutive_failures |-> n]

\* a success that would take one failure off the count instead of clearing it
DecrementedEntry(e) ==
    LET n == IF e.consecutive_failures > 0 THEN e.consecutive_failures - 1 ELSE 0
    IN  [is_healthy |-> n < UNHEALTHY_AFTER, consecutive_failures |-> n]

\* the entry after `consecutive_failures = 0; is_healthy = True`
SucceededEntry(e) == [is_healthy |-> TRUE, consecutive_failures |-> 0]

\* a failure whose write to the registry is lost
mark_failure_lost(ph, provider) == ph

\* LLMManager.mark_failure(provider, error)
mark_failure(ph, provider) == [ph EXCEPT ![provider] = FailedEntry(ph[provider])]

\* LLMManager.mark_success(provider)
mark_success(ph, provider) == [ph EXCEPT ![provider] = SucceededEntry(ph[provider])]

\* HuggingFaceManager._mark_unhealthy(model_name)
mark_unhealthy(mh, m) ==
    IF m \in DOMAIN mh THEN [mh EXCEPT ![m] = FailedEntry(mh[m])] ELSE mh

\* HuggingFaceManager.call_model, success branch: is_healthy = True, failures = 0
hf_mark_healthy(mh, m) == [mh EXCEPT ![m] = SucceededEntry(mh[m])]

\* the loop of get_next_healthy_provider from position i of provider_priority
RECURSIVE NextFrom(_, _, _)
NextFrom(ph, exclude, i) ==
    IF i > Len(provider_priority) THEN None
    ELSE IF provider_priority[i] \notin exclude /\ ph[provider_priority[i]].is_healthy
         THEN provider_priority[i]
         ELSE NextFrom(ph, exclude, i + 1)

\* a selection that would overlook the exclude set
NextIgnoringExclude(ph, exclude) == NextFrom(ph, {}, 1)

\* a selection that would overlook the health flags
NextIgnoringHealth(ph, exclude) ==
    NextFrom([p \in DOMAIN ph |-> [ph[p] EXCEPT !.is_healthy = TRUE]], exclude, 1)

\* LLMManager.get_next_healthy_provider(exclude)
get_next_healthy_provider(ph, exclude) == NextFrom(ph, exclude, 1)

Range(s) == {s[i] : i \in 1..Len(s)}


-----------------------------------------------------------------------------
(* Initial values of each part; a specification that does not exercise a  *)
(* part leaves it at these values.                                        *)

Entries == Providers \cup HFModels

InitReg ==
    /\ provider_health = InitProviderHealth
    /\ model_health = InitModelHealth
    /\ hist = [e \in Entries |-> <<>>]
    /\ last_op = <<"init">>
    /\ unbroken_failures = [p \in Providers |-> 0]

Calls == {"run1", "run2"}

InitFailover ==
    /\ fo_pc = [c \in Calls |-> "idle"]
    /\ attempt = [c \in Calls |-> 0]
    /\ providers_tried = [c \in Calls |-> <<>>]
    /\ last_error = [c \in Calls |-> None]
    /\ fo_return = [c \in Calls |-> <<>>]
    /\ fo_raised = [c \in Calls |-> None]
    /\ fo_log = [c \in Calls |-> <<>>]

IdleJudge ==
    /\ jr_a = 0
    /\ jr_s = 0
    /\ jr_out = <<>>

IdleCouncil ==
    /\ variant = None
    /\ diff_report = <<>>
    /\ c_pc = "idle"
    /\ status = "pending"
    /\ primary_analysis = <<>>
    /\ skeptic_critique = <<>>
    /\ final_judgment = <<>>
    /\ council_opinions = <<>>
    /\ hf_call = <<>>
    /\ invocations = <<>>
    /\ replies = <<>>
    /\ last_reply = <<>>
    /\ result = <<>>

IdleStore ==
    /\ app = None
    /\ unique_test_id = FALSE
    /\ req_diff = <<>>
    /\ store = <<>>
    /\ tasks = <<>>
    /\ http_log = <<>>

IdleShadow ==
    /\ to_json_rebuilds = FALSE
    /\ sh_pc = "idle"
    /\ legacy_body = <<>>
    /\ headless_body = <<>>
    /\ legacy_resp = <<>>
    /\ headless_resps = <<>>
    /\ headless_resp = <<>>
    /\ sh_sent = <<>>
    /\ sh_times = <<0, 0>>
    /\ sh_diff = <<>>
    /\ report = <<>>

-----------------------------------------------------------------------------
(* The registries under direct calls: SpecHealth *)

RECURSIVE SumLen(_, _)
SumLen(h, S) ==
    IF S = {} THEN 0
    ELSE LET e == CHOOSE x \in S : TRUE IN Len(h[e]) + SumLen(h, S \ {e})

OpsDone == SumLen(hist, Entries)

\* a caller invokes llm_manager.mark_failure(provider, e)
MarkFailureCall(p) ==
    /\ OpsDone < MaxOps
    /\ UNCHANGED <<storeVars, shadowVars>>
    /\ provider_health' = mark_failure(provider_health, p)
    /\ hist' = [hist EXCEPT ![p] = Append(@, "F")]
    /\ last_op' = <<"mark">>
    /\ UNCHANGED <<model_health, unbroken_failures, foVars, judgeVars, councilVars>>

\* a caller invokes llm_manager.mark_success(provider)
MarkSuccessCall(p) ==
    /\ OpsDone < MaxOps
    /\ UNCHANGED <<storeVars, shadowVars>>
    /\ provider_health' = mark_success(provider_health, p)
    /\ hist' = [hist EXCEPT ![p] = Append(@, "S")]
    /\ last_op' = <<"mark">>
    /\ UNCHANGED <<model_health, unbroken_failures, foVars, judgeVars, councilVars>>

\* how the one `await self.client.chat.completions.create(...)` of a
\* call_model can end: it raises (transport error, timeout), or it returns a
\* response with no choices, with a first choice whose content is None or "",
\* or with a first choice that has text
RaisingOutcomes == {"transport_error", "timeout"}
ChoiceOutcomes == {"empty_content", "content"}
CompletionOutcomes == RaisingOutcomes \cup {"no_choices"} \cup ChoiceOutcomes

\* what call_model returns: None (written <<>>) from lines 65 and 70, else
\* the dict of lines 57-61 with `content.strip() if content else ""`
call_model_result(m, outcome) ==
    IF outcome \in ChoiceOutcomes
    THEN [content |-> IF outcome = "content" THEN "text" ELSE "", model |-> m]
    ELSE <<>>

\* one hf_manager.call_model(m, ...) whose outbound call gave choices
HFCallSucceeds(m, outcome) ==
    /\ OpsDone < MaxOps
    /\ UNCHANGED <<storeVars, shadowVars>>
    /\ model_health' = hf_mark_healthy(model_health, m)
    /\ hist' = [hist EXCEPT ![m] = Append(@, "S")]
    /\ last_op' = <<"call_model", m, outcome, call_model_result(m, outcome)>>
    /\ UNCHANGED <<provider_health, unbroken_failures, foVars, judgeVars, councilVars>>

\* one hf_manager.call_model(m, ...) that raised or gave no choices
HFCallFails(m, outcome) ==
    /\ OpsDone < MaxOps
    /\ UNCHANGED <<storeVars, shadowVars>>
    /\ model_health' = mark_unhealthy(model_health, m)
    /\ hist' = [hist EXCEPT ![m] = Append(@, "F")]
    /\ last_op' = <<"call_model", m, outcome, call_model_result(m, outcome)>>
    /\ UNCHANGED <<provider_health, unbroken_failures, foVars, judgeVars, councilVars>>

\* a caller invokes llm_manager.get_next_healthy_provider(exclude)
QueryNext(exclude) ==
    /\ UNCHANGED <<storeVars, shadowVars>>
    /\ last_op' = <<"query", exclude,
                    get_next_healthy_provider(provider_health, exclude),
                    provider_health>>
    /\ UNCHANGED <<provider_health, model_health, hist, unbroken_failures, foVars, judgeVars,
                   councilVars>>

InitHealth ==
    InitReg /\ InitFailover /\ IdleJudge /\ IdleCouncil /\ IdleStore /\ IdleShadow

NextHealth ==
    \/ \E p \in Providers : MarkFailureCall(p)
    \/ \E p \in Providers : MarkSuccessCall(p)
    \/ \E m \in HFModels, outcome \in ChoiceOutcomes : HFCallSucceeds(m, outcome)
    \/ \E m \in HFModels, outcome \in CompletionOutcomes \ ChoiceOutcomes : HFCallFails(m, outcome)
    \/ \E ex \in SUBSET Providers : QueryNext(ex)

SpecHealth == InitHealth /\ [][NextHealth]_vars

\* number of "F" at the end of an outcome history
RECURSIVE TrailingFailures(_)
TrailingFailures(h) ==
    IF h = <<>> THEN 0
    ELSE IF h[Len(h)] = "S" THEN 0
    ELSE 1 + TrailingFailures(SubSeq(h, 1, Len(h) - 1))

HealthOf(e) == IF e \in Providers THEN provider_health[e] ELSE model_health[e]

\* C1: after every sequence of recorded failures and successes on a registry
\* entry, is_healthy is false exactly when the sequence ends with 3 or more
\* failures (so it turns false at the 3rd consecutive failure and stays false
\* on further ones), consecutive_failures is the length of that run of
\* failures, and hence right after a success the entry is healthy with count 0.
C1_HealthFollowsHistory ==
    \A e \in Entries :
        /\ HealthOf(e).is_healthy = (TrailingFailures(hist[e]) < 3)
        /\ HealthOf(e).consecutive_failures = TrailingFailures(hist[e])

\* C1 witness: a provider went unhealthy at its 3rd failure, took one more
\* failure, and was then healed by one success.
C1_Witness ==
    \E p \in Providers :
        /\ hist[p] = <<"F", "F", "F", "F", "S">>
        /\ provider_health[p].is_healthy
        /\ provider_health[p].consecutive_failures = 0

\* what get_next_healthy_provider must return for health ph and exclusion ex
IsFirstEligible(ph, ex, r) ==
    LET Eligible(i) == ph[provider_priority[i]].is_healthy /\ provider_priority[i] \notin ex
        Idx == 1..Len(provider_priority)
    IN  IF \E i \in Idx : Eligible(i)
        THEN \E i \in Idx : /\ Eligible(i)
                            /\ r = provider_priority[i]
                            /\ \A j \in 1..(i - 1) : ~Eligible(j)
        ELSE r = None

\* C4: get_next_healthy_provider(exclude) returns the first provider in the
\* order deepseek, mistral, llama that is healthy and not excluded, none
\* exactly when there is no such provider, and leaves provider_health as it was.
C4_NextHealthyIsFirstEligible ==
    last_op[1] = "query" =>
        /\ provider_priority = <<"deepseek", "mistral", "llama">>
        /\ IsFirstEligible(last_op[4], last_op[2], last_op[3])
        /\ provider_health = last_op[4]

\* C4 witness: deepseek is unhealthy, mistral is excluded, llama is returned;
\* and a query that returned none although a provider is healthy but excluded.
C4_Witness ==
    /\ last_op[1] = "query"
    /\ ~provider_health["deepseek"].is_healthy
    /\ provider_health["mistral"].is_healthy
    /\ last_op[2] = {"mistral"}
    /\ last_op[3] = "llama"


\* the outcomes of the outbound call after which call_model must report
\* failure: transport error, timeout, no choices, empty response body
MustFail == RaisingOutcomes \cup {"no_choices", "empty_content"}

\* C34: one call_model records exactly one health outcome on its model and
\* reports accordingly: after a transport error, a timeout, a reply with no
\* choices or an empty response body it records a failure and returns None;
\* otherwise it records a success and returns the reply.
C34_Step ==
    last_op'[1] = "call_model" /\ hist' # hist =>
        LET m == last_op'[2]
            outcome == last_op'[3]
            returned == last_op'[4]
        IN  /\ \A e \in Entries \ {m} : hist'[e] = hist[e]
            /\ Len(hist'[m]) = Len(hist[m]) + 1
            /\ IF outcome \in MustFail
               THEN /\ returned = <<>>
                    /\ hist'[m] = Append(hist[m], "F")
                    /\ model_health'[m].consecutive_failures =
                           model_health[m].consecutive_failures + 1
               ELSE /\ returned # <<>>
                    /\ hist'[m] = Append(hist[m], "S")
                    /\ model_health'[m] = [is_healthy |-> TRUE, consecutive_failures |-> 0]

C34_CallModelOneOutcome == [][C34_Step]_vars


\* the entry's flag agrees with its count
FlagAgrees(e) ==
    /\ e.consecutive_failures >= 0
    /\ e.is_healthy <=> e.consecutive_failures < UNHEALTHY_AFTER

\* C36: in every reachable state of both registries, whatever the order of
\* the outcomes recorded, each entry has consecutive_failures >= 0 and is
\* unhealthy exactly when consecutive_failures >= 3.
C36_UnhealthyIffThreeFailures ==
    /\ \A p \in Providers : FlagAgrees(provider_health[p])
    /\ \A m \in HFModels : FlagAgrees(model_health[m])

\* C36 witness: a provider and a model each made unhealthy by three failures
\* in a row, recorded in an interleaved order.
C36_Witness ==
    \E p \in Providers, m \in HFModels :
        /\ hist[p] = <<"F", "F", "F">>
        /\ hist[m] = <<"F", "F", "F">>
        /\ ~provider_health[p].is_healthy
        /\ ~model_health[m].is_healthy
        /\ provider_health[p].consecutive_failures = 3

-----------------------------------------------------------------------------
(* with_failover.wrapper: Spec.  A frame runs without interruption between  *)
(* two suspension points; the wrapper suspends in `await func(...)` and in  *)
(* `await asyncio.sleep(...)` only (log_reliability_event never suspends),  *)
(* so other frames interleave exactly there.                                *)

\* exceptions the wrapped function raises
InvocationErrors == {"TimeoutError", "HTTPStatusError"}

ProviderUnavailableError == "ProviderUnavailableError"

RECURSIVE Pow2(_)
Pow2(n) == IF n = 0 THEN 1 ELSE 2 * Pow2(n - 1)

\* a backoff that would double once more than the attempt index says
BackoffDelayNext(att) == retry_delay_seconds * Pow2(att + 1)

\* `settings.retry_delay_seconds * (2 ** attempt)`
BackoffDelay(att) == retry_delay_seconds * Pow2(att)

\* `raise last_error or ProviderUnavailableError("All providers failed")`
ExhaustedError(err) == IF err # None THEN err ELSE ProviderUnavailableError

\* a return that would name the first provider tried
ReturnFirstTried(res, provider, tried) == <<res, tried[1]>>

\* what `return result, provider` hands back; the result of func(provider=p)
\* is written <<"reply", p>>
ReturnValue(res, provider, tried) == <<res, provider>>

\* the head of one loop iteration: lines 150-163, up to `await func(...)`
LoopHead(c, att, tried, log) ==
    LET provider == get_next_healthy_provider(provider_health, Range(tried))
    IN  /\ attempt' = [attempt EXCEPT ![c] = att]
        /\ IF provider = None
           THEN /\ fo_pc' = [fo_pc EXCEPT ![c] = "raised"]
                /\ fo_raised' = [fo_raised EXCEPT ![c] = ProviderUnavailableError]
                /\ providers_tried' = [providers_tried EXCEPT ![c] = tried]
                /\ fo_log' = [fo_log EXCEPT ![c] =
                                 Append(log, <<"raise", ProviderUnavailableError>>)]
           ELSE /\ fo_pc' = [fo_pc EXCEPT ![c] = "invoking"]
                /\ fo_raised' = [fo_raised EXCEPT ![c] = None]
                /\ providers_tried' = [providers_tried EXCEPT ![c] = Append(tried, provider)]
                /\ fo_log' = [fo_log EXCEPT ![c] =
                                 Append(log, <<"invoke", provider,
                                               provider_health[provider].is_healthy>>)]

\* the decorated function is called: providers_tried = [], last_error = None,
\* then the first iteration up to the invocation
StartCall(c) ==
    /\ fo_pc[c] \in {"idle", "returned", "raised"}
    /\ UNCHANGED <<storeVars, shadowVars>>
    /\ last_error' = [last_error EXCEPT ![c] = None]
    /\ fo_return' = [fo_return EXCEPT ![c] = <<>>]
    /\ LoopHead(c, 0, <<>>, <<>>)
    /\ UNCHANGED <<regVars, judgeVars, councilVars>>

CurrentProvider(c) == providers_tried[c][Len(providers_tried[c])]

\* func returned: lines 171-181
InvokeSucceeds(c) ==
    /\ fo_pc[c] = "invoking"
    /\ UNCHANGED <<storeVars, shadowVars>>
    /\ LET provider == CurrentProvider(c)
       IN  /\ provider_health' = mark_success(provider_health, provider)
           /\ unbroken_failures' = [unbroken_failures EXCEPT ![provider] = 0]
           /\ fo_return' = [fo_return EXCEPT ![c] =
                               ReturnValue(<<"reply", provider>>, provider, providers_tried[c])]
           /\ fo_log' = [fo_log EXCEPT ![c] = Append(@, <<"success", provider>>)]
    /\ fo_pc' = [fo_pc EXCEPT ![c] = "returned"]
    /\ UNCHANGED <<model_health, hist, last_op, attempt, providers_tried, last_error,
                   fo_raised, judgeVars, councilVars>>

\* func raised e: lines 183-222, and lines 224-225 when the loop is over
InvokeFails(c, e) ==
    /\ fo_pc[c] = "invoking"
    /\ UNCHANGED <<storeVars, shadowVars>>
    /\ LET provider == CurrentProvider(c)
           \* line 203: the provider the log names as failover target
           next_provider == get_next_healthy_provider(
                                mark_failure(provider_health, provider),
                                Range(providers_tried[c]))
       IN  /\ provider_health[provider].consecutive_failures < MaxFailures
           /\ provider_health' = mark_failure(provider_health, provider)
           /\ unbroken_failures' = [unbroken_failures EXCEPT ![provider] = @ + 1]
           /\ last_error' = [last_error EXCEPT ![c] = e]
           /\ IF attempt[c] < max_retries - 1
              THEN /\ fo_pc' = [fo_pc EXCEPT ![c] = "sleeping"]
                   /\ fo_log' = [fo_log EXCEPT ![c] =
                                    @ \o << <<"failure", provider, next_provider>>,
                                            <<"sleep", BackoffDelay(attempt[c])>> >>]
                   /\ UNCHANGED fo_raised
              ELSE /\ fo_pc' = [fo_pc EXCEPT ![c] = "raised"]
                   /\ fo_raised' = [fo_raised EXCEPT ![c] = ExhaustedError(e)]
                   /\ fo_log' = [fo_log EXCEPT ![c] =
                                    @ \o << <<"failure", provider, next_provider>>,
                                            <<"raise", ExhaustedError(e)>> >>]
    /\ UNCHANGED <<model_health, hist, last_op, attempt, providers_tried, fo_return,
                   judgeVars, councilVars>>

\* asyncio.sleep returned: the next iteration up to the invocation
Wake(c) ==
    /\ fo_pc[c] = "sleeping"
    /\ UNCHANGED <<storeVars, shadowVars>>
    /\ LoopHead(c, attempt[c] + 1, providers_tried[c], fo_log[c])
    /\ UNCHANGED <<regVars, last_error, fo_return, judgeVars, councilVars>>

Init == InitReg /\ InitFailover /\ IdleJudge /\ IdleCouncil /\ IdleStore /\ IdleShadow

Next ==
    \/ \E c \in Calls : StartCall(c)
    \/ \E c \in Calls : InvokeSucceeds(c)
    \/ \E c \in Calls, e \in InvocationErrors : InvokeFails(c, e)
    \/ \E c \in Calls : Wake(c)

Spec == Init /\ [][Next]_vars

-----------------------------------------------------------------------------
(* Properties of with_failover *)

Invokes(log) == SelectSeq(log, LAMBDA ev : ev[1] = "invoke")
Outcomes(log) == SelectSeq(log, LAMBDA ev : ev[1] \in {"success", "failure"})

\* the events a step added to the log of call c (a restarted call starts a new log)
NewEvents(c) ==
    IF Len(fo_log'[c]) >= Len(fo_log[c]) /\ SubSeq(fo_log'[c], 1, Len(fo_log[c])) = fo_log[c]
    THEN SubSeq(fo_log'[c], Len(fo_log[c]) + 1, Len(fo_log'[c]))
    ELSE fo_log'[c]

C2_State ==
    \A c \in Calls :
        LET log == fo_log[c]
            inv == Invokes(log)
        IN  /\ Len(inv) <= 3
            /\ \A i, j \in 1..Len(inv) : i # j => inv[i][2] # inv[j][2]
            /\ \A i \in 1..Len(inv) : inv[i][3] = TRUE
            /\ providers_tried[c] = [i \in 1..Len(inv) |-> inv[i][2]]
            \* every invocation that is over is followed by its one outcome
            /\ \A k \in 1..Len(log) :
                   /\ (log[k][1] = "invoke" /\ k < Len(log)) =>
                          /\ log[k + 1][1] \in {"success", "failure"}
                          /\ log[k + 1][2] = log[k][2]
                   /\ log[k][1] \in {"success", "failure"} =>
                          k > 1 /\ log[k - 1][1] = "invoke"
            /\ fo_pc[c] # "invoking" => Len(Outcomes(log)) = Len(inv)

C2_Step ==
    \A c \in Calls :
        LET out == Outcomes(NewEvents(c))
        IN  /\ Len(out) <= 1
            /\ Len(out) = 1 =>
                   LET p == out[1][2]
                   IN  /\ fo_pc[c] = "invoking" /\ p = CurrentProvider(c)
                       /\ \A q \in Providers \ {p} : provider_health'[q] = provider_health[q]
                       /\ out[1][1] = "success" =>
                              /\ provider_health'[p].is_healthy
                              /\ provider_health'[p].consecutive_failures = 0
                       /\ out[1][1] = "failure" =>
                              provider_health'[p].consecutive_failures =
                                  provider_health[p].consecutive_failures + 1
            /\ (\A d \in Calls : Outcomes(NewEvents(d)) = <<>>) =>
                   provider_health' = provider_health

\* C2: one with_failover call makes at most max_retries (3) invocations, each
\* on a provider not tried before in that call and healthy when selected, and
\* each invocation records exactly one health outcome, on the invoked provider
\* (the step that ends an invocation changes that provider's entry only, and
\* no other step changes the registry).
C2_DistinctHealthyOneOutcome == []C2_State /\ [][C2_Step]_vars

\* C2 witness: a call that used its whole budget on three providers and
\* recorded three outcomes, the last a success.
C2_Witness ==
    \E c \in Calls :
        /\ fo_pc[c] = "returned"
        /\ Len(providers_tried[c]) = 3
        /\ Len(Outcomes(fo_log[c])) = 3

\* C3: with_failover returns at the first successful invocation, the pair
\* (result, provider) names the provider whose invocation produced the result,
\* and nothing is invoked after that success.
C3_ReturnsServingProvider ==
    \A c \in Calls :
        LET log == fo_log[c]
            n == Len(log)
            HasSuccess == \E k \in 1..n : log[k][1] = "success"
        IN  /\ HasSuccess <=> fo_pc[c] = "returned"
            /\ fo_pc[c] = "returned" =>
                   /\ n >= 2
                   /\ log[n][1] = "success"
                   /\ log[n - 1] = <<"invoke", log[n][2], TRUE>>
                   /\ \A k \in 1..(n - 1) : log[k][1] # "success"
                   /\ fo_return[c] = << <<"reply", log[n][2]>>, log[n][2] >>
                   /\ fo_return[c][2] = providers_tried[c][Len(providers_tried[c])]
            /\ fo_pc[c] # "returned" => fo_return[c] = <<>>

\* C3 witness: a call served after failover: the provider returned is not the
\* first one tried.
C3_Witness ==
    \E c \in Calls :
        /\ fo_pc[c] = "returned"
        /\ Len(providers_tried[c]) >= 2
        /\ fo_return[c][2] # providers_tried[c][1]
        /\ fo_return[c][1] = <<"reply", fo_return[c][2]>>

\* C5: once a failed invocation leaves no healthy, not-yet-tried provider, the
\* call fails with ProviderUnavailable without a backoff sleep in between, and
\* no provider is invoked twice in one call.
C5_NoSleepWhenExhausted ==
    \A c \in Calls :
        LET log == fo_log[c]
            inv == Invokes(log)
        IN  /\ \A k \in 1..Len(log) :
                   (log[k][1] = "failure" /\ log[k][3] = None /\ k < Len(log)) =>
                       log[k + 1][1] # "sleep"
            /\ \A i, j \in 1..Len(inv) : i # j => inv[i][2] # inv[j][2]

\* C6: a with_failover call that does not succeed surfaces
\* ProviderUnavailable, whether no healthy provider was left or the whole
\* budget of invocations failed.
C6_OnlyProviderUnavailableEscapes ==
    \A c \in Calls : fo_pc[c] = "raised" => fo_raised[c] = ProviderUnavailableError


\* the calls in flight whose log holds a failure recorded on p and no success
FailedOn(p) ==
    {c \in Calls :
        /\ fo_pc[c] \in {"invoking", "sleeping"}
        /\ \E k \in 1..Len(fo_log[c]) : fo_log[c][k][1] = "failure" /\ fo_log[c][k][2] = p}

\* C15: whatever the interleaving of the with_failover calls in flight, a
\* provider's consecutive_failures is the number of failures recorded on it
\* since the last success recorded on it, and it is never negative.
C15_NoLostUpdate ==
    \A p \in Providers :
        /\ provider_health[p].consecutive_failures = unbroken_failures[p]
        /\ provider_health[p].consecutive_failures >= 0

\* C15 witness: both calls are in flight, each has recorded a failure on the
\* same provider, and the provider counts both.
C15_Witness ==
    \E p \in Providers :
        /\ FailedOn(p) = Calls
        /\ unbroken_failures[p] = 2
        /\ provider_health[p].consecutive_failures = 2


\* the sleeps of a log
Sleeps(log) == SelectSeq(log, LAMBDA ev : ev[1] = "sleep")

\* C33: in the log of every with_failover call nothing precedes the first
\* invocation; every later invocation comes right after one sleep of
\* retry_delay_seconds * 2^i, i the 0-based index of the failed attempt before
\* it, and that sleep right after that attempt's failure; and the failure of
\* attempt max_retries - 1 is followed by the raise, not by a sleep.
C33_BackoffBeforeRetryOnly ==
    \A c \in Calls :
        LET log == fo_log[c]
            AttemptsUpTo(k) == Len(Invokes(SubSeq(log, 1, k)))
        IN  /\ Len(Sleeps(log)) <= max_retries - 1
            /\ \A k \in 1..Len(log) :
                   /\ (log[k][1] = "invoke" /\ AttemptsUpTo(k) = 1) => k = 1
                   /\ (log[k][1] = "invoke" /\ AttemptsUpTo(k) > 1) =>
                          /\ k > 3
                          /\ log[k - 1] =
                                 <<"sleep", retry_delay_seconds * Pow2(AttemptsUpTo(k) - 2)>>
                          /\ log[k - 2][1] = "failure"
                          /\ log[k - 3][1] = "invoke"
                   /\ log[k][1] = "sleep" => k > 1 /\ log[k - 1][1] = "failure"
                   /\ (log[k][1] = "failure" /\ AttemptsUpTo(k) = max_retries) =>
                          k = Len(log) \/ log[k + 1][1] = "raise"

\* C33 witness: a call that failed on three providers: it slept 2 s and 4 s
\* and raised right after the third failure.
C33_Witness ==
    \E c \in Calls :
        /\ fo_pc[c] = "raised"
        /\ Len(Invokes(fo_log[c])) = max_retries
        /\ Sleeps(fo_log[c]) = << <<"sleep", 2>>, <<"sleep", 4>> >>
        /\ fo_log[c][Len(fo_log[c]) - 1][1] = "failure"


\* every provider is unhealthy and no invocation is in flight
AllDown ==
    /\ \A p \in Providers : ~provider_health[p].is_healthy
    /\ \A c \in Calls : fo_pc[c] # "invoking"

\* a step that makes an unhealthy provider healthy is the success of an
\* invocation on it that some call selected when the provider was healthy
C37_Recovery ==
    \A p \in Providers :
        (~provider_health[p].is_healthy /\ provider_health'[p].is_healthy) =>
            \E c \in Calls :
                /\ fo_pc[c] = "invoking" /\ fo_pc'[c] = "returned"
                /\ CurrentProvider(c) = p
                /\ fo_log[c][Len(fo_log[c])] = <<"invoke", p, TRUE>>

\* from an all-unhealthy registry with nothing in flight, a step leaves the
\* registry as it is, and a call that moves raises ProviderUnavailable with
\* no invocation
C37_Stuck ==
    AllDown =>
        /\ AllDown'
        /\ provider_health' = provider_health
        /\ \A c \in Calls :
               fo_log'[c] # fo_log[c] =>
                   /\ fo_pc'[c] = "raised"
                   /\ fo_raised'[c] = ProviderUnavailableError
                   /\ Invokes(NewEvents(c)) = <<>>

\* C37: an unhealthy provider becomes healthy only by the success of an
\* invocation selected while it was healthy; and once every provider is
\* unhealthy with no invocation in flight, the registry stays so forever and
\* every with_failover call fails with ProviderUnavailable, invoking nothing.
C37_NoRecoveryWithoutInvocation == [][C37_Recovery /\ C37_Stuck]_vars

\* C37 witness: all providers unhealthy, nothing in flight, and a call made
\* in that state has raised ProviderUnavailable without any invocation.
C37_Witness ==
    /\ AllDown
    /\ \E c \in Calls :
           /\ fo_pc[c] = "raised"
           /\ fo_log[c] = << <<"raise", ProviderUnavailableError>> >>

-----------------------------------------------------------------------------
(* The judge's deterministic rule *)

\* "Weight: Primary 60%, Skeptic 40%", in tenths
PRIMARY_WEIGHT == 6
SKEPTIC_WEIGHT == 4

\* `final_risk < 0.3`, `final_risk < 0.7`, in thousandths
PASS_BELOW == 300
FAIL_FROM == 700

Min(a, b) == IF a < b THEN a ELSE b
Max(a, b) == IF a > b THEN a ELSE b

\* dict.get(key, default)
Get(d, key, default) == IF key \in DOMAIN d THEN d[key] ELSE default

\* `(primary_risk * 0.6) + (skeptic_risk * 0.4)`
WeightedRisk(primary_risk, skeptic_risk) ==
    (primary_risk * PRIMARY_WEIGHT + skeptic_risk * SKEPTIC_WEIGHT) \div 10

\* a rule whose two comparisons would be inclusive
VerdictInclusive(r) ==
    IF r <= PASS_BELOW THEN "PASS"
    ELSE IF r <= FAIL_FROM THEN "NEEDS_REVIEW"
    ELSE "FAIL"

\* `if r < 0.3: PASS  elif r < 0.7: NEEDS_REVIEW  else: FAIL`
VerdictFor(r) ==
    IF r < PASS_BELOW THEN "PASS"
    ELSE IF r < FAIL_FROM THEN "NEEDS_REVIEW"
    ELSE "FAIL"

\* ConsensusJudge._fallback_judgment(primary_analysis, skeptic_critique)
fallback_judgment(primary, skeptic) ==
    LET primary_risk == Get(primary, "risk_score", 500)
        skeptic_risk == Get(skeptic, "risk_score", primary_risk)
        final_risk == Max(0, Min(1000, WeightedRisk(primary_risk, skeptic_risk)))
    IN  [agent |-> "consensus_judge",
         provider |-> "huggingface_fallback",
         model |-> "fallback_weighted",
         verdict |-> VerdictFor(final_risk),
         final_risk_score |-> final_risk,
         risk_score |-> final_risk,
         confidence |-> 750]

\* SimpleCouncil._call_consensus_judge, "Fallback calculation" (the reply is
\* not JSON): the dict `result`
simple_fallback_result(primary_result, skeptic_result) ==
    LET weighted_risk == WeightedRisk(primary_result.risk_score, skeptic_result.risk_score)
    IN  [verdict |-> VerdictFor(weighted_risk), risk_score |-> weighted_risk]

\* MockCouncil.analyze_diff, "Judge makes final weighted decision"
mock_final(primary_opinion, skeptic_opinion) ==
    LET final_risk == WeightedRisk(primary_opinion.risk_score, skeptic_opinion.risk_score)
    IN  [verdict |-> VerdictFor(final_risk), risk_score |-> final_risk]

RiskGrid == {10 * i : i \in 0..RiskSteps}

InitJudge ==
    /\ jr_a \in RiskGrid
    /\ jr_s \in RiskGrid
    /\ jr_out = <<>>
    /\ InitReg /\ InitFailover /\ IdleCouncil /\ IdleStore /\ IdleShadow

\* the three implementations of the rule applied to (jr_a, jr_s)
ApplyJudgeRule ==
    /\ jr_out = <<>>
    /\ UNCHANGED <<storeVars, shadowVars>>
    /\ jr_out' =
           LET pa == [risk_score |-> jr_a]
               sc == [risk_score |-> jr_s]
               w == fallback_judgment(pa, sc)
           IN  [workflow |-> [verdict |-> w.verdict, risk_score |-> w.final_risk_score],
                simple |-> simple_fallback_result(pa, sc),
                mock |-> mock_final(pa, sc)]
    /\ UNCHANGED <<jr_a, jr_s, regVars, foVars, councilVars>>

NextJudge == ApplyJudgeRule

SpecJudge == InitJudge /\ [][NextJudge]_vars

\* C9: for analyzer risk a and skeptic risk s in [0,1] the fallback risk is
\* 0.6*a + 0.4*s, and the label is PASS iff it is below 0.3, FAIL iff it is at
\* least 0.7, NEEDS_REVIEW otherwise, in each implementation of the rule.
C9_FallbackRiskAndLabel ==
    (jr_out # <<>> /\ jr_a <= 1000 /\ jr_s <= 1000) =>
        \A v \in {"workflow", "simple", "mock"} :
            LET tenfold == 6 * jr_a + 4 * jr_s
            IN  /\ 10 * jr_out[v].risk_score = tenfold
                /\ jr_out[v].verdict = "PASS" <=> tenfold < 3000
                /\ jr_out[v].verdict = "FAIL" <=> tenfold >= 7000
                /\ jr_out[v].verdict = "NEEDS_REVIEW" <=> (tenfold >= 3000 /\ tenfold < 7000)

\* C9 witness: the rule applied where the weighted risk is exactly 0.7
\* (a = 0.9, s = 0.4), labelled FAIL.
C9_Witness ==
    /\ jr_out # <<>>
    /\ jr_a = 900 /\ jr_s = 400
    /\ jr_out["workflow"] = [verdict |-> "FAIL", risk_score |-> 700]
    /\ jr_out["simple"].verdict = "FAIL"
    /\ jr_out["mock"].verdict = "FAIL"

-----------------------------------------------------------------------------
(* Inputs of a council run *)

\* A diff_report maps the DeepDiff categories it contains to their entries.
\* A type_changes entry is described by how its two values relate:
\*   "num_str_equal"   a number and a numeric string of equal value (100.0, "100")
\*   "int_float_equal" an int and a float of equal value (100, 100.0)
\*   "unequal"         values that are not numerically equal
\* a values_changed entry by "case_only" (two strings equal up to case),
\* "other_str" (two different strings) or "non_str"; a removed item by its path.
Categories == {"type_changes", "dictionary_item_removed", "values_changed"}

\* "not_a_dict" is an entry whose value is not an object, as in
\* {"type_changes": {"root['price']": "changed"}}
TypeChangeOptions ==
    {<<"num_str_equal">>, <<"int_float_equal">>, <<"unequal">>, <<"num_str_equal", "unequal">>,
     <<"not_a_dict">>}
RemovedOptions == {<<"root['tax_total']">>}
ValueChangeOptions == {<<"case_only">>, <<"other_str">>}

DiffWith(K, tc, rm, vc) ==
    [k \in K |-> CASE k = "type_changes" -> tc
                   [] k = "dictionary_item_removed" -> rm
                   [] OTHER -> vc]

DiffReports ==
    {DiffWith(K, tc, rm, vc) : K \in SUBSET Categories, tc \in TypeChangeOptions,
                               rm \in RemovedOptions, vc \in ValueChangeOptions}

Verdicts == {"PASS", "NEEDS_REVIEW", "FAIL"}

\* numbers a model reply may declare as a risk (1500 is out of range)
ReplyRisks == {0, 290, 300, 700, 1500}

\* A model call ends in one of:
\*   [kind |-> "error"]    the call raised or gave no choices / ollama raised
\*   [kind |-> "json", data |-> d]   the reply holds a JSON object d
\*   [kind |-> "badjson"]  braces that json.loads rejects, or a field float() rejects
\*   [kind |-> "text", words |-> w]  no JSON object; w are the substrings the
\*                                    text parsers look for that occur in it
ErrorReply == [kind |-> "error"]
BadJsonReply == [kind |-> "badjson"]
JsonReply(d) == [kind |-> "json", data |-> d]
TextReply(w) == [kind |-> "text", words |-> w]

AnalyzerReplies ==
    {ErrorReply, BadJsonReply, JsonReply(<<>>),
     JsonReply([risk_score |-> 200, confidence |-> 1500])}
    \cup {JsonReply([risk_score |-> r]) : r \in ReplyRisks}
    \cup {TextReply(w) : w \in {{}, {"type", "mismatch"}, {"missing"}, {"low risk"},
                                {"type", "change", "removed", "critical"}}}

SkepticReplies ==
    {ErrorReply, BadJsonReply, JsonReply(<<>>),
     JsonReply([risk_adjustment |-> 0 - 300]),
     JsonReply([risk_adjustment |-> 200, confidence |-> 900,
                false_positives |-> <<"price is the same number">>]),
     TextReply({}), TextReply({"false positive", "semantic", "equivalent"}),
     TextReply({"genuine", "overreact"})}

JudgeJson(riskKey) ==
    {<<>>}
    \cup {[verdict |-> v] : v \in Verdicts \cup {"APPROVE"}}
    \cup {[k \in {riskKey} |-> r] : r \in ReplyRisks}
    \cup {[k \in {"verdict", riskKey} |-> IF k = "verdict" THEN v ELSE r] :
              v \in Verdicts \cup {"APPROVE"}, r \in ReplyRisks}

JudgeReplies ==
    {ErrorReply, BadJsonReply}
    \cup {JsonReply(d) : d \in JudgeJson("final_risk_score")}
    \cup {TextReply(w) : w \in {{}, {"pass", "safe"}, {"pass", "fail"},
                                {"do not deploy", "deploy"}, {"pass", "deploy", "block"}}}

SimplePrimaryReplies ==
    {ErrorReply, BadJsonReply, JsonReply(<<>>)}
    \cup {JsonReply([risk_score |-> r]) : r \in ReplyRisks}

SimpleSkepticReplies ==
    {ErrorReply, BadJsonReply, JsonReply(<<>>)}
    \cup {JsonReply([adjusted_risk |-> r]) : r \in ReplyRisks}

SimpleJudgeReplies ==
    {ErrorReply, BadJsonReply} \cup {JsonReply(d) : d \in JudgeJson("risk_score")}

-----------------------------------------------------------------------------
(* app/agents: the three agents of CouncilWorkflow *)

\* a selection that would give up when no model is healthy
get_healthy_model_or_none(mh, agent_type) ==
    IF \E m \in HFModels : mh[m].is_healthy
    THEN CHOOSE m \in HFModels : mh[m].is_healthy
    ELSE None

\* HuggingFaceManager.get_healthy_model(agent_type); self.models maps every
\* agent type to HF_MODEL
get_healthy_model(mh, agent_type) ==
    LET primary_model == HF_MODEL
    IN  IF mh[primary_model].is_healthy THEN primary_model
        ELSE IF \E m \in HFModels : mh[m].is_healthy
             THEN CHOOSE m \in HFModels : mh[m].is_healthy
             ELSE primary_model

\* HuggingFaceManager.call_model: the health entry after the call
call_model_health(mh, model_name, reply) ==
    IF reply.kind = "error" THEN mark_unhealthy(mh, model_name)
    ELSE hf_mark_healthy(mh, model_name)

Has(w, sub) == sub \in w

\* PrimaryAnalyzer._fallback_analysis(diff_report)
fallback_analysis(diff) ==
    LET t == "type_changes" \in DOMAIN diff
        r == "dictionary_item_removed" \in DOMAIN diff
        v == "values_changed" \in DOMAIN diff
        issues == (IF t THEN <<"Type mismatch detected - may break client parsing">> ELSE <<>>)
                  \o (IF r THEN <<"Missing fields in headless response">> ELSE <<>>)
                  \o (IF v THEN <<"Value differences found - may affect business logic">> ELSE <<>>)
        risk_score == (IF t THEN 400 ELSE 0) + (IF r THEN 500 ELSE 0) + (IF v THEN 200 ELSE 0)
    IN  [agent |-> "primary_analyzer",
         model |-> "fallback_rules",
         detected_issues |-> issues,
         risk_score |-> Min(risk_score, 1000),
         confidence |-> 600]

\* PrimaryAnalyzer._parse_text_response(text, diff_report)
parse_text_response(w) ==
    LET tm == Has(w, "type") /\ (Has(w, "mismatch") \/ Has(w, "change"))
        ms == Has(w, "missing") \/ Has(w, "removed")
        r1 == 300 + (IF tm THEN 300 ELSE 0) + (IF ms THEN 400 ELSE 0)
        r2 == IF Has(w, "critical") \/ Has(w, "high risk") THEN r1 + 300
              ELSE IF Has(w, "low risk") \/ Has(w, "minor") THEN Max(r1 - 200, 100)
              ELSE r1
    IN  [detected_issues |->
             (IF tm THEN <<"Type mismatch identified by analyzer">> ELSE <<>>)
             \o (IF ms THEN <<"Missing field identified by analyzer">> ELSE <<>>),
         risk_score |-> Min(r2, 1000),
         confidence |-> 700]

\* PrimaryAnalyzer.analyze, from the return of call_model on
analyze(model_name, reply, diff) ==
    IF reply.kind \in {"error", "badjson"} THEN fallback_analysis(diff)
    ELSE LET analysis_data == IF reply.kind = "json" THEN reply.data
                              ELSE parse_text_response(reply.words)
         IN  [agent |-> "primary_analyzer",
              model |-> model_name,
              detected_issues |-> Get(analysis_data, "detected_issues", <<>>),
              risk_score |-> Get(analysis_data, "risk_score", 500),
              confidence |-> Get(analysis_data, "confidence", 800)]

\* SkepticCritic._is_semantically_equivalent(old_val, new_val) on a
\* type_changes entry: only a number against a string is compared numerically
is_semantically_equivalent(entry) == entry = "num_str_equal"

\* an exception that leaves a function instead of a return value
Raised(e) == [raised |-> e]
IsRaised(x) == "raised" \in DOMAIN x

\* `change.get(...)` on an entry that is not a dict
AttributeError == "'str' object has no attribute 'get'"

\* SkepticCritic._fallback_critique(primary_analysis, diff_report)
fallback_critique(primary, diff) ==
    LET tc == Get(diff, "type_changes", <<>>)
        vc == Get(diff, "values_changed", <<>>)
        rm == Get(diff, "dictionary_item_removed", <<>>)
        tcEq == SelectSeq(tc, is_semantically_equivalent)
        tcNe == SelectSeq(tc, LAMBDA e : ~is_semantically_equivalent(e))
        vcCase == SelectSeq(vc, LAMBDA e : e = "case_only")
        vcOther == SelectSeq(vc, LAMBDA e : e = "other_str")
    IN  IF \E i \in 1..Len(tc) : tc[i] = "not_a_dict" THEN Raised(AttributeError)
        ELSE [agent |-> "skeptic_critic",
              model |-> "fallback_rules",
              false_positives |-> tcEq \o vcCase,
              genuine_concerns |-> tcNe \o vcOther \o rm,
              risk_adjustment |-> 0 - 200 * Len(tcEq) - 100 * Len(vcCase),
              confidence |-> 700]

\* SkepticCritic._parse_text_critique(text, primary_analysis, diff_report)
parse_text_critique(w) ==
    LET fp == Has(w, "false positive") \/ Has(w, "not a real issue")
        se == Has(w, "semantic") /\ Has(w, "equivalent")
        ge == Has(w, "genuine") \/ Has(w, "real concern")
        ov == Has(w, "overreact") \/ Has(w, "too conservative")
    IN  [false_positives |->
             (IF fp THEN <<"Analyst identified potential false positive">> ELSE <<>>)
             \o (IF se THEN <<"Semantic equivalence noted">> ELSE <<>>),
         genuine_concerns |-> IF ge THEN <<"Genuine concern identified">> ELSE <<>>,
         risk_adjustment |-> 0 - (IF fp THEN 200 ELSE 0) - (IF se THEN 150 ELSE 0)
                               - (IF ov THEN 100 ELSE 0),
         confidence |-> 600]

\* SkepticCritic.critique, from the return of call_model on
critique(model_name, reply, primary, diff) ==
    IF reply.kind \in {"error", "badjson"} THEN fallback_critique(primary, diff)
    ELSE LET critique_data == IF reply.kind = "json" THEN reply.data
                              ELSE parse_text_critique(reply.words)
         IN  [agent |-> "skeptic_critic",
              model |-> model_name,
              false_positives |-> Get(critique_data, "false_positives", <<>>),
              genuine_concerns |-> Get(critique_data, "genuine_concerns", <<>>),
              risk_adjustment |-> Get(critique_data, "risk_adjustment", 0),
              confidence |-> Get(critique_data, "confidence", 750)]

\* ConsensusJudge._parse_text_judgment(text, ...)
parse_text_judgment(w) ==
    IF Has(w, "pass") /\ (Has(w, "safe") \/ Has(w, "deploy"))
    THEN [verdict |-> "PASS", final_risk_score |-> 200, confidence |-> 600]
    ELSE IF Has(w, "fail") \/ Has(w, "do not deploy") \/ Has(w, "block")
         THEN [verdict |-> "FAIL", final_risk_score |-> 800, confidence |-> 600]
         ELSE [verdict |-> "NEEDS_REVIEW", final_risk_score |-> 500, confidence |-> 600]

\* "Validate verdict"
validated_verdict(judgment_data) ==
    LET verdict == Get(judgment_data, "verdict", "NEEDS_REVIEW")
    IN  IF verdict \notin {"PASS", "NEEDS_REVIEW", "FAIL"} THEN "NEEDS_REVIEW" ELSE verdict

\* ConsensusJudge.judge, from the return of call_model on
judge(model_name, reply, primary, skeptic) ==
    IF reply.kind \in {"error", "badjson"} THEN fallback_judgment(primary, skeptic)
    ELSE LET judgment_data == IF reply.kind = "json" THEN reply.data
                              ELSE parse_text_judgment(reply.words)
         IN  [agent |-> "consensus_judge",
              provider |-> "huggingface",
              model |-> model_name,
              verdict |-> validated_verdict(judgment_data),
              final_risk_score |-> Get(judgment_data, "final_risk_score", 500),
              risk_score |-> Get(judgment_data, "final_risk_score", 500),
              confidence |-> Get(judgment_data, "confidence", 800)]

-----------------------------------------------------------------------------
(* app/simple_council.py *)

\* self.models
SimpleModels == [primary |-> "deepseek-r1:latest", skeptic |-> "mistral:latest",
                 judge |-> "llama3.2:3b"]

\* SimpleCouncil._call_primary_analyzer, from the return of ollama.generate on
call_primary_analyzer(reply) ==
    IF reply.kind = "error"
    THEN [agent |-> "primary_analyzer", provider |-> "deepseek-r1",
          detected_issues |-> <<"LLM call failed">>, risk_score |-> 500, confidence |-> 100]
    ELSE LET res == IF reply.kind = "json" THEN reply.data
                    ELSE [issues |-> <<"Failed to parse structured response">>,
                          risk_score |-> 500]
         IN  [agent |-> "primary_analyzer", provider |-> "deepseek-r1",
              detected_issues |-> Get(res, "issues", <<>>),
              risk_score |-> Get(res, "risk_score", 500),
              confidence |-> 800]

\* SimpleCouncil._call_skeptic_critic
call_skeptic_critic(reply, primary_result) ==
    IF reply.kind = "error"
    THEN [agent |-> "skeptic_critic", provider |-> "mistral",
          detected_issues |-> primary_result.detected_issues,
          risk_score |-> primary_result.risk_score, confidence |-> 100]
    ELSE LET res == IF reply.kind = "json" THEN reply.data
                    ELSE [false_positives |-> <<>>,
                          real_issues |-> primary_result.detected_issues,
                          adjusted_risk |-> primary_result.risk_score]
         IN  [agent |-> "skeptic_critic", provider |-> "mistral",
              detected_issues |-> Get(res, "real_issues", <<>>),
              false_positives |-> Get(res, "false_positives", <<>>),
              risk_score |-> Get(res, "adjusted_risk", primary_result.risk_score),
              confidence |-> 700]

\* SimpleCouncil._call_consensus_judge
call_consensus_judge(reply, primary_result, skeptic_result) ==
    IF reply.kind = "error"
    THEN [agent |-> "consensus_judge", provider |-> "llama3.2",
          detected_issues |-> skeptic_result.detected_issues,
          risk_score |-> WeightedRisk(primary_result.risk_score, skeptic_result.risk_score),
          confidence |-> 100,
          verdict |-> "NEEDS_REVIEW"]
    ELSE LET res == IF reply.kind = "json" THEN reply.data
                    ELSE simple_fallback_result(primary_result, skeptic_result)
         IN  [agent |-> "consensus_judge", provider |-> "llama3.2",
              detected_issues |-> skeptic_result.detected_issues,
              risk_score |-> Get(res, "risk_score", 500),
              confidence |-> 900,
              verdict |-> Get(res, "verdict", "NEEDS_REVIEW")]

\* the dict SimpleCouncil.analyze_diff returns
simple_result(primary_result, skeptic_result, final_result) ==
    [status |-> "complete",
     council_opinions |-> <<primary_result, skeptic_result, final_result>>,
     final_verdict |-> Get(final_result, "verdict", "NEEDS_REVIEW"),
     risk_score |-> Get(final_result, "risk_score", 500),
     is_mitigated |-> FALSE,
     active_provider |-> "ollama_direct"]

-----------------------------------------------------------------------------
(* app/mock_council.py *)

\* MockCouncil._is_semantic_equivalent(diff_report): float(old) == float(new)
\* for some type change
\* its loop from entry i on: "true" / "false" for what it returns, "raise"
\* when `change.get` meets an entry that is not a dict
RECURSIVE MockScan(_, _)
MockScan(tc, i) ==
    IF i > Len(tc) THEN "false"
    ELSE IF tc[i] = "not_a_dict" THEN "raise"
    ELSE IF tc[i] \in {"num_str_equal", "int_float_equal"} THEN "true"
    ELSE MockScan(tc, i + 1)

mock_is_semantic_equivalent(diff) ==
    IF "type_changes" \notin DOMAIN diff THEN "false"
    ELSE MockScan(diff["type_changes"], 1)

\* the dict MockCouncil.analyze_diff returns from its except branch
mock_failed_result(error_message) ==
    [status |-> "failed",
     error_message |-> error_message,
     is_mitigated |-> FALSE,
     active_provider |-> "mock_council"]

\* a recommendation whose two comparisons would be inclusive
mock_recommendation_inclusive(risk_score) ==
    IF risk_score <= PASS_BELOW THEN "No significant issues detected. Safe to proceed."
    ELSE IF risk_score <= FAIL_FROM
         THEN "Some issues detected. Manual review recommended before deployment."
         ELSE "Critical issues found. Do not deploy until resolved."

\* "Determine verdict based on risk": the recommendation
mock_recommendation(risk_score) ==
    IF risk_score < PASS_BELOW THEN "No significant issues detected. Safe to proceed."
    ELSE IF risk_score < FAIL_FROM
         THEN "Some issues detected. Manual review recommended before deployment."
         ELSE "Critical issues found. Do not deploy until resolved."

\* MockCouncil.analyze_diff after the sleep: the dict it returns
mock_analyze_diff(diff) ==
    LET t == "type_changes" \in DOMAIN diff
        r == "dictionary_item_removed" \in DOMAIN diff
        v == "values_changed" \in DOMAIN diff
        issues == (IF t THEN <<"Type mismatch detected">> ELSE <<>>)
                  \o (IF r THEN <<"Missing fields in headless response">> ELSE <<>>)
                  \o (IF v THEN <<"Value differences found">> ELSE <<>>)
        risk_score == (IF t THEN 300 ELSE 0) + (IF r THEN 400 ELSE 0) + (IF v THEN 200 ELSE 0)
        recommendation == mock_recommendation(risk_score)
        primary_opinion ==
            [agent |-> "primary_analyzer", provider |-> "deepseek-r1",
             detected_issues |-> issues,
             risk_score |-> Min(risk_score + 100, 1000),
             confidence |-> 850]
        IsFalsePositive(issue) ==
            issue = "Type mismatch detected" /\ mock_is_semantic_equivalent(diff) = "true"
        skeptic_false_positives == SelectSeq(issues, IsFalsePositive)
        skeptic_issues == SelectSeq(issues, LAMBDA i : ~IsFalsePositive(i))
        skeptic_risk == IF skeptic_false_positives # <<>> THEN Max(risk_score - 100, 0)
                        ELSE risk_score
        skeptic_opinion ==
            [agent |-> "skeptic_critic", provider |-> "mistral",
             detected_issues |-> skeptic_issues,
             false_positives |-> skeptic_false_positives,
             risk_score |-> skeptic_risk,
             confidence |-> 780]
        final == mock_final(primary_opinion, skeptic_opinion)
        judge_opinion ==
            [agent |-> "consensus_judge", provider |-> "llama3.2",
             detected_issues |-> skeptic_issues,
             risk_score |-> final.risk_score,
             confidence |-> 920,
             verdict |-> final.verdict,
             recommendation |-> recommendation]
    IN  IF t /\ mock_is_semantic_equivalent(diff) = "raise"
        THEN mock_failed_result(AttributeError)
        ELSE [status |-> "complete",
              council_opinions |-> <<primary_opinion, skeptic_opinion, judge_opinion>>,
              final_verdict |-> final.verdict,
              risk_score |-> final.risk_score,
              is_mitigated |-> FALSE,
              mitigation_recommendation |-> recommendation,
              active_provider |-> "mock_council"]

-----------------------------------------------------------------------------
(* app/graph/council_graph.py and the runs: SpecCouncil *)

\* an accumulation that would put the newest opinion first
PrependOpinion(opinions, opinion) == <<opinion>> \o opinions

\* `state["council_opinions"].append(opinion)`
AppendOpinion(opinions, opinion) == Append(opinions, opinion)

\* CouncilWorkflow._format_final_result(state)
format_final_result(opinions, judgment) ==
    [status |-> "complete",
     council_opinions |-> opinions,
     final_verdict |-> Get(judgment, "verdict", "NEEDS_REVIEW"),
     risk_score |-> Get(judgment, "final_risk_score", 500),
     is_mitigated |-> FALSE,
     active_provider |-> "huggingface_council"]

\* CouncilWorkflow._format_error_result(state)
format_error_result(opinions, error_message) ==
    [status |-> "failed",
     error_message |-> error_message,
     council_opinions |-> opinions,
     is_mitigated |-> FALSE,
     active_provider |-> "huggingface_council"]

\* hf_manager is one module-level object: its registry is as the runs before
\* this one left it, untouched or with every model marked unhealthy
PriorModelHealth ==
    {InitModelHealth,
     [m \in HFModels |-> [is_healthy |-> FALSE, consecutive_failures |-> UNHEALTHY_AFTER]]}

InitCouncil ==
    /\ variant \in {"workflow", "simple", "mock"}
    /\ diff_report \in DiffReports
    /\ c_pc = "idle"
    /\ status = "pending"
    /\ primary_analysis = <<>>
    /\ skeptic_critique = <<>>
    /\ final_judgment = <<>>
    /\ council_opinions = <<>>
    /\ hf_call = <<>>
    /\ invocations = <<>>
    /\ replies = <<>>
    /\ last_reply = <<>>
    /\ result = <<>>
    /\ provider_health = InitProviderHealth
    /\ model_health \in PriorModelHealth
    /\ hist = [e \in Entries |-> <<>>]
    /\ last_op = <<"init">>
    /\ unbroken_failures = [p \in Providers |-> 0]
    /\ InitFailover /\ IdleJudge /\ IdleStore /\ IdleShadow

\* an agent picks its model and suspends in hf_manager.call_model
BeginCall(agent) ==
    /\ hf_call' = <<agent, get_healthy_model(model_health', agent)>>
    /\ invocations' = Append(invocations, agent)

\* run_council_analysis is called: the state is built and the analyzer
\* runs up to its model call
WorkflowStart ==
    /\ variant = "workflow" /\ c_pc = "idle"
    /\ UNCHANGED <<storeVars, shadowVars>>
    /\ UNCHANGED <<replies, last_reply>>
    /\ status' = "analyzing"
    /\ UNCHANGED model_health
    /\ BeginCall("primary_analyzer")
    /\ c_pc' = "await_primary"
    /\ UNCHANGED <<provider_health, hist, last_op, unbroken_failures, foVars, judgeVars, variant,
                   diff_report,
                   primary_analysis, skeptic_critique, final_judgment, council_opinions,
                   result>>

\* the analyzer's call returns: Step 1 ends, Step 2 runs up to its model call
PrimaryReturns(reply) ==
    /\ variant = "workflow" /\ c_pc = "await_primary"
    /\ UNCHANGED <<storeVars, shadowVars>>
    /\ replies' = Append(replies, reply.kind)
    /\ last_reply' = reply
    /\ model_health' = call_model_health(model_health, hf_call[2], reply)
    /\ LET opinion == analyze(hf_call[2], reply, diff_report)
       IN  /\ primary_analysis' = opinion
           /\ council_opinions' = AppendOpinion(council_opinions, opinion)
    /\ BeginCall("skeptic_critic")
    /\ c_pc' = "await_skeptic"
    /\ UNCHANGED <<provider_health, hist, last_op, unbroken_failures, foVars, judgeVars, variant,
                   diff_report,
                   status, skeptic_critique, final_judgment, result>>

\* the skeptic's call returns: Step 2 ends and Step 3 runs up to its model
\* call, or Step 2 raised and the except branch formats the failed result
SkepticReturns(reply) ==
    /\ variant = "workflow" /\ c_pc = "await_skeptic"
    /\ UNCHANGED <<storeVars, shadowVars>>
    /\ model_health' = call_model_health(model_health, hf_call[2], reply)
    /\ replies' = Append(replies, reply.kind)
    /\ last_reply' = reply
    /\ LET opinion == critique(hf_call[2], reply, primary_analysis, diff_report)
       IN  IF IsRaised(opinion)
           THEN /\ status' = "failed"
                /\ result' = format_error_result(council_opinions, opinion.raised)
                /\ hf_call' = <<>>
                /\ c_pc' = "done"
                /\ UNCHANGED <<skeptic_critique, council_opinions, invocations>>
           ELSE /\ skeptic_critique' = opinion
                /\ council_opinions' = AppendOpinion(council_opinions, opinion)
                /\ BeginCall("consensus_judge")
                /\ c_pc' = "await_judge"
                /\ UNCHANGED <<status, result>>
    /\ UNCHANGED <<provider_health, hist, last_op, unbroken_failures, foVars, judgeVars, variant,
                   diff_report,
                   primary_analysis, final_judgment>>

\* the judge's call returns: Step 3 ends and the result is formatted
JudgeReturns(reply) ==
    /\ variant = "workflow" /\ c_pc = "await_judge"
    /\ UNCHANGED <<storeVars, shadowVars>>
    /\ replies' = Append(replies, reply.kind)
    /\ last_reply' = reply
    /\ model_health' = call_model_health(model_health, hf_call[2], reply)
    /\ LET opinion == judge(hf_call[2], reply, primary_analysis, skeptic_critique)
           opinions == AppendOpinion(council_opinions, opinion)
       IN  /\ final_judgment' = opinion
           /\ council_opinions' = opinions
           /\ result' = format_final_result(opinions, opinion)
    /\ status' = "complete"
    /\ hf_call' = <<>>
    /\ c_pc' = "done"
    /\ UNCHANGED <<provider_health, hist, last_op, unbroken_failures, foVars, judgeVars, variant,
                   diff_report,
                   primary_analysis, skeptic_critique, invocations>>

\* an ollama.generate call is handed to a thread and awaited
BeginOllama(agent, model) ==
    /\ hf_call' = <<agent, model>>
    /\ invocations' = Append(invocations, agent)

\* SimpleCouncil.analyze_diff is called
SimpleStart ==
    /\ variant = "simple" /\ c_pc = "idle"
    /\ UNCHANGED <<storeVars, shadowVars>>
    /\ UNCHANGED <<replies, last_reply>>
    /\ BeginOllama("primary_analyzer", SimpleModels.primary)
    /\ c_pc' = "await_primary"
    /\ UNCHANGED <<regVars, foVars, judgeVars, variant, diff_report, status,
                   primary_analysis, skeptic_critique, final_judgment, council_opinions,
                   result>>

SimplePrimaryReturns(reply) ==
    /\ variant = "simple" /\ c_pc = "await_primary"
    /\ UNCHANGED <<storeVars, shadowVars>>
    /\ replies' = Append(replies, reply.kind)
    /\ last_reply' = reply
    /\ primary_analysis' = call_primary_analyzer(reply)
    /\ BeginOllama("skeptic_critic", SimpleModels.skeptic)
    /\ c_pc' = "await_skeptic"
    /\ UNCHANGED <<regVars, foVars, judgeVars, variant, diff_report, status,
                   skeptic_critique, final_judgment, council_opinions, result>>

SimpleSkepticReturns(reply) ==
    /\ variant = "simple" /\ c_pc = "await_skeptic"
    /\ UNCHANGED <<storeVars, shadowVars>>
    /\ replies' = Append(replies, reply.kind)
    /\ last_reply' = reply
    /\ skeptic_critique' = call_skeptic_critic(reply, primary_analysis)
    /\ BeginOllama("consensus_judge", SimpleModels.judge)
    /\ c_pc' = "await_judge"
    /\ UNCHANGED <<regVars, foVars, judgeVars, variant, diff_report, status,
                   primary_analysis, final_judgment, council_opinions, result>>

SimpleJudgeReturns(reply) ==
    /\ variant = "simple" /\ c_pc = "await_judge"
    /\ UNCHANGED <<storeVars, shadowVars>>
    /\ replies' = Append(replies, reply.kind)
    /\ last_reply' = reply
    /\ LET final_result == call_consensus_judge(reply, primary_analysis, skeptic_critique)
       IN  /\ final_judgment' = final_result
           /\ result' = simple_result(primary_analysis, skeptic_critique, final_result)
    /\ hf_call' = <<>>
    /\ c_pc' = "done"
    /\ UNCHANGED <<regVars, foVars, judgeVars, variant, diff_report, status,
                   primary_analysis, skeptic_critique, council_opinions, invocations>>

\* MockCouncil.analyze_diff is called: `await asyncio.sleep(2)`
MockStart ==
    /\ variant = "mock" /\ c_pc = "idle"
    /\ UNCHANGED <<storeVars, shadowVars>>
    /\ UNCHANGED <<replies, last_reply>>
    /\ c_pc' = "await_sleep"
    /\ UNCHANGED <<regVars, foVars, judgeVars, variant, diff_report, status,
                   primary_analysis, skeptic_critique, final_judgment, council_opinions,
                   hf_call, invocations, result>>

\* the sleep is over: the rest of MockCouncil.analyze_diff
MockWake ==
    /\ variant = "mock" /\ c_pc = "await_sleep"
    /\ UNCHANGED <<storeVars, shadowVars>>
    /\ UNCHANGED <<replies, last_reply>>
    /\ result' = mock_analyze_diff(diff_report)
    /\ c_pc' = "done"
    /\ UNCHANGED <<regVars, foVars, judgeVars, variant, diff_report, status,
                   primary_analysis, skeptic_critique, final_judgment, council_opinions,
                   hf_call, invocations>>

NextCouncil ==
    \/ WorkflowStart
    \/ \E reply \in AnalyzerReplies : PrimaryReturns(reply)
    \/ \E reply \in SkepticReplies : SkepticReturns(reply)
    \/ \E reply \in JudgeReplies : JudgeReturns(reply)
    \/ SimpleStart
    \/ \E reply \in SimplePrimaryReplies : SimplePrimaryReturns(reply)
    \/ \E reply \in SimpleSkepticReplies : SimpleSkepticReturns(reply)
    \/ \E reply \in SimpleJudgeReplies : SimpleJudgeReturns(reply)
    \/ MockStart
    \/ MockWake

SpecCouncil == InitCouncil /\ [][NextCouncil]_vars

-----------------------------------------------------------------------------
(* Properties of a council run *)

AgentOrder == <<"primary_analyzer", "skeptic_critic", "consensus_judge">>

AgentsOf(opinions) == [i \in 1..Len(opinions) |-> opinions[i].agent]

IsPrefix(s, t) == Len(s) <= Len(t) /\ \A i \in 1..Len(s) : s[i] = t[i]

\* how many stages have handed back their opinion
StagesReturned ==
    (IF primary_analysis # <<>> THEN 1 ELSE 0)
    + (IF skeptic_critique # <<>> THEN 1 ELSE 0)
    + (IF final_judgment # <<>> THEN 1 ELSE 0)

\* C7: at every point of a run the accumulated council_opinions is a prefix of
\* [primary_analyzer, skeptic_critic, consensus_judge]; the model call of stage
\* k is in flight only when the k-1 stages before it have returned and their
\* opinions are appended; a result with status complete holds exactly the three
\* opinions in this order.
C7_OpinionsInStageOrder ==
    /\ IsPrefix(AgentsOf(council_opinions), AgentOrder)
    /\ IsPrefix(invocations, AgentOrder)
    /\ hf_call # <<>> =>
           /\ hf_call[1] = AgentOrder[Len(invocations)]
           /\ StagesReturned = Len(invocations) - 1
           /\ variant = "workflow" => Len(council_opinions) = Len(invocations) - 1
    /\ (hf_call = <<>> /\ status # "failed") => StagesReturned \in {0, 3}
    /\ (result # <<>> /\ result.status = "complete") =>
           AgentsOf(result.council_opinions) = AgentOrder

\* a workflow run that went through its three model calls and ended complete
C7_Witness ==
    /\ variant = "workflow"
    /\ invocations = AgentOrder
    /\ status = "complete"
    /\ result # <<>> /\ Len(result.council_opinions) = 3

\* C8: a run on an empty diff report invokes no model and ends complete with
\* verdict PASS, risk score 0.0 and the analyzer's opinion alone (risk 0.0,
\* confidence 1.0).
C8_EmptyDiffShortCircuits ==
    diff_report = <<>> =>
        /\ invocations = <<>>
        /\ result # <<>> =>
               /\ result.status = "complete"
               /\ result.final_verdict = "PASS"
               /\ result.risk_score = 0
               /\ Len(result.council_opinions) = 1
               /\ result.council_opinions[1].agent = "primary_analyzer"
               /\ result.council_opinions[1].risk_score = 0
               /\ result.council_opinions[1].confidence = 1000

\* C10: in the result of every completed run final_verdict is PASS iff
\* risk_score < 0.3, FAIL iff risk_score >= 0.7 and NEEDS_REVIEW otherwise.
C10_VerdictAgreesWithRisk ==
    (result # <<>> /\ result.status = "complete") =>
        /\ result.final_verdict = "PASS" <=> result.risk_score < 300
        /\ result.final_verdict = "FAIL" <=> result.risk_score >= 700
        /\ result.final_verdict = "NEEDS_REVIEW" <=>
               (result.risk_score >= 300 /\ result.risk_score < 700)

\* C11: a completed run on a diff report that holds a dictionary_item_removed
\* entry went through the three stages and its final verdict is NEEDS_REVIEW
\* or FAIL, never PASS.
C11_RemovedKeyNeverPasses ==
    ("dictionary_item_removed" \in DOMAIN diff_report
        /\ result # <<>> /\ result.status = "complete") =>
        /\ Len(result.council_opinions) = 3
        /\ result.final_verdict \in {"NEEDS_REVIEW", "FAIL"}

\* C12: when the analyzer's model call failed the run ends failed with an
\* error message and no opinion is recorded.
C12_AnalyzerFailureFailsRun ==
    (replies # <<>> /\ replies[1] = "error") =>
        /\ council_opinions = <<>>
        /\ c_pc = "done" =>
               /\ result.status = "failed"
               /\ "error_message" \in DOMAIN result /\ result.error_message # ""
               /\ Get(result, "council_opinions", <<>>) = <<>>

\* C13: the result of a run that ends failed holds exactly the opinions
\* accumulated so far, in stage order, and the error message, and holds no
\* verdict and no risk score.
C13_FailedResultKeepsOpinions ==
    (result # <<>> /\ result.status = "failed") =>
        /\ "council_opinions" \in DOMAIN result
        /\ Get(result, "council_opinions", <<>>) = council_opinions
        /\ IsPrefix(AgentsOf(council_opinions), AgentOrder)
        /\ Len(council_opinions) = StagesReturned
        /\ "error_message" \in DOMAIN result /\ result.error_message # ""
        /\ "final_verdict" \notin DOMAIN result
        /\ "risk_score" \notin DOMAIN result


\* the replies that are not well-formed structured data: a JSON object that
\* does not load, or text with no JSON object in it
Unparseable == {"badjson", "text"}

\* min(1.0, 0.4*[type change] + 0.5*[missing key] + 0.2*[value change])
RuleEstimate(diff) ==
    Min(1000, (IF "type_changes" \in DOMAIN diff THEN 400 ELSE 0)
              + (IF "dictionary_item_removed" \in DOMAIN diff THEN 500 ELSE 0)
              + (IF "values_changed" \in DOMAIN diff THEN 200 ELSE 0))

\* C26: a run of the three agents in which every model reply was unparseable
\* ends complete with three opinions, each the one its stage's rule gives for
\* the diff and the opinions before it, whatever the text of the reply.
C26_UnparseableNeverFatal ==
    (variant \in {"workflow", "simple"} /\ c_pc = "done"
     /\ \A i \in 1..Len(replies) : replies[i] \in Unparseable) =>
        /\ result.status = "complete"
        /\ Len(Get(result, "council_opinions", <<>>)) = 3
        /\ variant = "workflow" =>
               /\ primary_analysis = fallback_analysis(diff_report)
               /\ skeptic_critique = fallback_critique(primary_analysis, diff_report)
               /\ final_judgment = fallback_judgment(primary_analysis, skeptic_critique)

\* C27: when the analyzer's reply was unparseable its risk score is the
\* rule-based estimate of the diff.
C27_AnalyzerFallbackRisk ==
    (variant = "workflow" /\ replies # <<>> /\ replies[1] \in Unparseable) =>
        primary_analysis.risk_score = RuleEstimate(diff_report)

\* the risk the fallback weighting gives to analyzer risk a and skeptic risk s
FallbackRisk(a, s) == Max(0, Min(1000, (6 * a + 4 * s) \div 10))

\* C28: when the judge's reply parses and declares one of the three labels,
\* the final verdict and risk are the declared ones; when it declares another
\* label, they are the ones of the threshold rule on the fallback risk.
C28_JudgePrefersValidModelVerdict ==
    (variant = "workflow" /\ c_pc = "done" /\ status = "complete"
     /\ last_reply.kind = "json" /\ "verdict" \in DOMAIN last_reply.data) =>
        LET declared == last_reply.data
            a == primary_analysis.risk_score
            fallback_risk == FallbackRisk(a, Get(skeptic_critique, "risk_score", a))
        IN  IF declared.verdict \in Verdicts
            THEN /\ final_judgment.verdict = declared.verdict
                 /\ "final_risk_score" \in DOMAIN declared =>
                        final_judgment.risk_score = declared.final_risk_score
            ELSE /\ final_judgment.risk_score = fallback_risk
                 /\ final_judgment.verdict = VerdictFor(fallback_risk)

\* a risk score inside [0, 1]
InRange(r) == r \in 0..1000

\* C29: the skeptic's opinion has a risk score of its own, and a judge that
\* falls back weighs it: for an analyzer risk a and a skeptic risk s inside
\* [0, 1] the final risk is 0.6 a + 0.4 s.
C29_SkepticRiskIsWeighed ==
    (variant \in {"workflow", "simple"} /\ c_pc = "done" /\ Len(replies) = 3) =>
        /\ "risk_score" \in DOMAIN skeptic_critique
        /\ (/\ replies[3] \in {"error", "badjson"}
            /\ InRange(primary_analysis.risk_score)
            /\ InRange(skeptic_critique.risk_score)) =>
               final_judgment.risk_score =
                   WeightedRisk(primary_analysis.risk_score, skeptic_critique.risk_score)

\* C30: when the skeptic's reply was unparseable its opinion has the
\* analyzer's detected issues, no false positive, the analyzer's risk score
\* and a confidence from 0.5 to 0.7.
C30_SkepticFallbackEchoes ==
    (variant \in {"workflow", "simple"} /\ Len(replies) >= 2 /\ replies[2] \in Unparseable
     /\ skeptic_critique # <<>>) =>
        /\ "detected_issues" \in DOMAIN skeptic_critique
        /\ skeptic_critique.detected_issues = primary_analysis.detected_issues
        /\ Get(skeptic_critique, "false_positives", <<>>) = <<>>
        /\ "risk_score" \in DOMAIN skeptic_critique
        /\ skeptic_critique.risk_score = primary_analysis.risk_score
        /\ skeptic_critique.confidence \in 500..700


\* the replies after which a stage of the workflow calls its _fallback_* rule
FallbackCases == {"error", "badjson"}

\* the identifiers the _fallback_* rules put in an opinion's model field,
\* which providers_attempted lists
FallbackForms == {"fallback_rules", "fallback_weighted"}

\* the confidence each stage gives a parsed reply that declares none
DefaultConfidence == <<800, 750, 800>>

\* C31: a workflow run in which some stage used its fallback ends complete,
\* every opinion a fallback built has an identifier of a fallback form and a
\* confidence below the stage's default, and no other opinion has such an
\* identifier.
C31_DegradedRunIsDiscoverable ==
    (variant = "workflow" /\ c_pc = "done"
     /\ \E i \in 1..Len(replies) : replies[i] \in FallbackCases) =>
        /\ result.status = "complete"
        /\ Len(result.council_opinions) = Len(replies)
        /\ \A i \in 1..Len(replies) :
               LET opinion == result.council_opinions[i]
               IN  IF replies[i] \in FallbackCases
                   THEN /\ opinion.model \in FallbackForms
                        /\ opinion.confidence < DefaultConfidence[i]
                   ELSE opinion.model \notin FallbackForms


\* C32: every opinion recorded by a workflow run has its risk score and its
\* confidence inside [0, 1], and so has the risk score of the run's result,
\* whatever numbers the model replies declared.
C32_ScoresInUnitInterval ==
    variant = "workflow" =>
        /\ \A i \in 1..Len(council_opinions) :
               LET opinion == council_opinions[i]
               IN  /\ "risk_score" \in DOMAIN opinion => InRange(opinion.risk_score)
                   /\ InRange(opinion.confidence)
        /\ (result # <<>> /\ "risk_score" \in DOMAIN result) => InRange(result.risk_score)


\* the model get_healthy_model is to return for a registry: the agent's
\* primary model when it is healthy or when no model is, else a healthy one
ModelToUse(mh) ==
    IF mh[HF_MODEL].is_healthy \/ \A m \in HFModels : ~mh[m].is_healthy
    THEN {HF_MODEL}
    ELSE {m \in HFModels : mh[m].is_healthy}

\* C38: every stage of a workflow run gets a model from get_healthy_model,
\* never None: the primary model when it is healthy, else a healthy model,
\* else the primary model again; so each stage that began made its model call
\* (no opinion comes from the 'no healthy model' branch), on an unhealthy
\* model too.
C38_AlwaysAModel ==
    variant = "workflow" =>
        /\ hf_call # <<>> =>
               /\ hf_call[2] # None
               /\ hf_call[2] \in ModelToUse(model_health)
        /\ c_pc \in {"await_primary", "await_skeptic", "await_judge"} => hf_call # <<>>
        /\ Len(council_opinions) <= Len(replies)
        /\ Len(invocations) = Len(replies) + (IF hf_call # <<>> THEN 1 ELSE 0)

\* C38 witness: a later stage of a run calls a model that is marked unhealthy.
C38_Witness ==
    /\ variant = "workflow"
    /\ c_pc = "await_judge"
    /\ hf_call = <<"consensus_judge", HF_MODEL>>
    /\ ~model_health[HF_MODEL].is_healthy
    /\ replies = <<"error", "error">>


\* the verdict whose branch of MockCouncil.analyze_diff writes the text
TierOf(recommendation) ==
    IF recommendation = "No significant issues detected. Safe to proceed." THEN "PASS"
    ELSE IF recommendation =
                "Some issues detected. Manual review recommended before deployment."
         THEN "NEEDS_REVIEW"
         ELSE IF recommendation = "Critical issues found. Do not deploy until resolved."
              THEN "FAIL"
              ELSE None

\* C40: in every complete result of MockCouncil.analyze_diff the
\* recommendation is the text of the final verdict's tier, in the result and
\* in the judge's opinion.
C40_RecommendationMatchesVerdict ==
    (variant = "mock" /\ c_pc = "done" /\ result.status = "complete") =>
        /\ result.final_verdict \in Verdicts
        /\ TierOf(result.mitigation_recommendation) = result.final_verdict
        /\ LET judge_opinion == result.council_opinions[3]
           IN  /\ judge_opinion.verdict = result.final_verdict
               /\ TierOf(judge_opinion.recommendation) = judge_opinion.verdict

\* C40 witness: a diff with an equivalent type change and a removed key: the
\* skeptic lowers its risk, and verdict and recommendation are both of the
\* FAIL tier.
C40_Witness ==
    /\ variant = "mock" /\ c_pc = "done"
    /\ result.status = "complete"
    /\ DOMAIN diff_report = {"type_changes", "dictionary_item_removed"}
    /\ result.council_opinions[2].false_positives # <<>>
    /\ result.final_verdict = "FAIL"
    /\ TierOf(result.mitigation_recommendation) = "FAIL"

-----------------------------------------------------------------------------
(* app/api/routes.py and simple_main.py over the shadow_tests table:       *)
(* SpecStore                                                               *)

\* requests sent to the orchestrator in one behaviour
MaxRequests == 3

TestIds == {"t1", "t2"}

\* diff reports the requests carry: empty, a removed key, a type change whose
\* entry is not an object
StoreDiffs ==
    {<<>>,
     [k \in {"dictionary_item_removed"} |-> <<"root['tax_total']">>],
     [k \in {"type_changes"} |-> <<"not_a_dict">>]}

\* a row after `.update(fields)`: the fields named are overwritten (every
\* update of the code also sets updated_at, written here as a write count)
WithFields(row, fields) ==
    [k \in DOMAIN row \cup DOMAIN fields |->
        IF k = "updated_at" THEN row.updated_at + 1
        ELSE IF k \in DOMAIN fields THEN fields[k] ELSE row[k]]

\* the rows `.eq("test_id", id)` selects
Matching(rows, id) == {i \in 1..Len(rows) : rows[i].test_id = id}

\* an update whose filter would select every row
update_every_row(rows, id, fields) ==
    [i \in 1..Len(rows) |-> WithFields(rows[i], fields)]

\* table.update(fields).eq("test_id", id).execute(): the rows afterwards
update_rows(rows, id, fields) ==
    [i \in 1..Len(rows) |->
        IF i \in Matching(rows, id) THEN WithFields(rows[i], fields) ELSE rows[i]]

\* the row POST /analyze of routes.py inserts
routes_initial_row(id, diff) ==
    [test_id |-> id, diff_report |-> diff, status |-> "pending",
     council_opinions |-> <<>>, is_mitigated |-> FALSE, updated_at |-> 0]

\* the row POST /api/analyze of simple_main.py inserts
simple_main_initial_row(id, diff) ==
    [test_id |-> id, diff_report |-> diff, status |-> "analyzing",
     council_opinions |-> <<>>, is_mitigated |-> FALSE, updated_at |-> 0]

\* process_analysis, "Update database with final results": the fields of the
\* update, or the KeyError raised while its dict is built
final_fields(final_state) ==
    IF "council_opinions" \notin DOMAIN final_state THEN Raised("'council_opinions'")
    ELSE [status |-> final_state.status,
          council_opinions |-> final_state.council_opinions,
          active_provider |-> final_state.active_provider,
          risk_score |-> Get(final_state, "risk_score", None),
          final_verdict |-> Get(final_state, "final_verdict", None),
          is_mitigated |-> final_state.is_mitigated,
          mitigation_recommendation |-> Get(final_state, "mitigation_recommendation", None),
          error_message |-> Get(final_state, "error_message", None)]

\* process_analysis, "Update database with error"
error_fields(e) == [status |-> "failed", error_message |-> e]

\* mitigate_test: the fields of its update
mitigate_fields == [is_mitigated |-> TRUE]

\* simple_main.analyze_parity_test, "Simple mock analysis": the fields of
\* its last update
simple_main_fields(diff) ==
    LET t == "type_changes" \in DOMAIN diff
        r == "dictionary_item_removed" \in DOMAIN diff
        v == "values_changed" \in DOMAIN diff
        issues == (IF t THEN <<"Type mismatch detected">> ELSE <<>>)
                  \o (IF r THEN <<"Missing fields in headless response">> ELSE <<>>)
                  \o (IF v THEN <<"Value differences found">> ELSE <<>>)
        risk_score == (IF t THEN 300 ELSE 0) + (IF r THEN 400 ELSE 0) + (IF v THEN 200 ELSE 0)
    IN  [status |-> "complete",
         council_opinions |-> << [agent |-> "primary_analyzer",
                                  detected_issues |-> issues,
                                  risk_score |-> risk_score,
                                  confidence |-> 850] >>,
         risk_score |-> risk_score,
         final_verdict |-> VerdictFor(risk_score),
         is_mitigated |-> FALSE,
         mitigation_recommendation |->
             IF risk_score < PASS_BELOW THEN "No significant issues detected."
             ELSE IF risk_score < FAIL_FROM
                  THEN "Some issues detected. Manual review recommended."
                  ELSE "Critical issues found. Do not deploy."]

InitStore ==
    /\ app \in {"routes", "simple_main"}
    /\ unique_test_id \in BOOLEAN
    /\ req_diff \in [TestIds -> StoreDiffs]
    /\ store = <<>>
    /\ tasks = <<>>
    /\ http_log = <<>>
    /\ InitReg /\ InitFailover /\ IdleJudge /\ IdleCouncil /\ IdleShadow

\* POST /analyze of routes.py: the handler up to its response
RoutesAnalyze(id) ==
    /\ app = "routes"
    /\ Len(http_log) < MaxRequests
    /\ IF unique_test_id /\ Matching(store, id) # {}
       THEN \* the insert raises: HTTPException(500)
            /\ http_log' = Append(http_log, <<"analyze", id, 500>>)
            /\ UNCHANGED <<store, tasks>>
       ELSE /\ store' = Append(store, routes_initial_row(id, req_diff[id]))
            /\ tasks' = Append(tasks, [test_id |-> id, pc |-> "queued"])
            /\ http_log' = Append(http_log, <<"analyze", id, 200>>)
    /\ UNCHANGED <<app, unique_test_id, req_diff>>
    /\ UNCHANGED <<regVars, foVars, judgeVars, councilVars, shadowVars>>

\* process_analysis starts: the status update, then the council call suspends
ProcessAnalysisStart(i) ==
    /\ i \in 1..Len(tasks)
    /\ tasks[i].pc = "queued"
    /\ store' = update_rows(store, tasks[i].test_id, [status |-> "analyzing"])
    /\ tasks' = [tasks EXCEPT ![i].pc = "in_council"]
    /\ UNCHANGED <<app, unique_test_id, req_diff, http_log>>
    /\ UNCHANGED <<regVars, foVars, judgeVars, councilVars, shadowVars>>

\* the council call returns: the final update, or the update of the except
\* branch when building the final update raised
ProcessAnalysisFinish(i) ==
    /\ i \in 1..Len(tasks)
    /\ tasks[i].pc = "in_council"
    /\ LET final_state == mock_analyze_diff(req_diff[tasks[i].test_id])
           fields == final_fields(final_state)
       IN  store' = update_rows(store, tasks[i].test_id,
                                IF IsRaised(fields) THEN error_fields(fields.raised)
                                ELSE fields)
    /\ tasks' = [tasks EXCEPT ![i].pc = "done"]
    /\ UNCHANGED <<app, unique_test_id, req_diff, http_log>>
    /\ UNCHANGED <<regVars, foVars, judgeVars, councilVars, shadowVars>>

\* POST /mitigate/{test_id}
MitigateTest(id) ==
    /\ app = "routes"
    /\ Len(http_log) < MaxRequests
    /\ store' = update_rows(store, id, mitigate_fields)
    /\ http_log' = Append(http_log,
                          <<"mitigate", id, IF Matching(store, id) = {} THEN 404 ELSE 200>>)
    /\ UNCHANGED <<app, unique_test_id, req_diff, tasks>>
    /\ UNCHANGED <<regVars, foVars, judgeVars, councilVars, shadowVars>>

\* the row log_to_supabase("shadow_tests", report) inserts: the report's id
\* and diff with status pending; the columns it does not name are left to the
\* table (no opinions, not mitigated)
engine_row(id, diff) ==
    [test_id |-> id, diff_report |-> diff, status |-> "pending",
     council_opinions |-> <<>>, is_mitigated |-> FALSE, updated_at |-> 0]

\* run_shadow_replay, line 141: the engine logs the report of a new request
\* id (a uuid4 nothing has used); trigger_council_analysis, line 144, is the
\* POST to the orchestrator's analyze operation that follows
LogToSupabase(id) ==
    /\ Len(http_log) < MaxRequests
    /\ \A k \in 1..Len(http_log) : http_log[k][2] # id
    /\ Matching(store, id) = {}
    /\ store' = Append(store, engine_row(id, req_diff[id]))
    /\ http_log' = Append(http_log, <<"log", id, 201>>)
    /\ UNCHANGED <<app, unique_test_id, req_diff, tasks>>
    /\ UNCHANGED <<regVars, foVars, judgeVars, councilVars, shadowVars>>

\* POST /api/analyze of simple_main.py: the whole handler (it never awaits)
SimpleMainAnalyze(id) ==
    /\ app = "simple_main"
    /\ Len(http_log) < MaxRequests
    /\ LET begun == IF Matching(store, id) = {}
                    THEN Append(store, simple_main_initial_row(id, req_diff[id]))
                    ELSE update_rows(store, id, [status |-> "analyzing"])
       IN  store' = update_rows(begun, id, simple_main_fields(req_diff[id]))
    /\ http_log' = Append(http_log, <<"analyze", id, 200>>)
    /\ UNCHANGED <<app, unique_test_id, req_diff, tasks>>
    /\ UNCHANGED <<regVars, foVars, judgeVars, councilVars, shadowVars>>

NextStore ==
    \/ \E id \in TestIds : RoutesAnalyze(id)
    \/ \E i \in 1..MaxRequests : ProcessAnalysisStart(i)
    \/ \E i \in 1..MaxRequests : ProcessAnalysisFinish(i)
    \/ \E id \in TestIds : MitigateTest(id)
    \/ \E id \in TestIds : SimpleMainAnalyze(id)
    \/ \E id \in TestIds : LogToSupabase(id)

SpecStore == InitStore /\ [][NextStore]_vars

-----------------------------------------------------------------------------
(* Properties of the record store *)

\* number of POST /analyze requests sent for id
RECURSIVE Submitted(_, _)
Submitted(log, id) ==
    IF log = <<>> THEN 0
    ELSE (IF Head(log)[1] = "analyze" /\ Head(log)[2] = id THEN 1 ELSE 0)
         + Submitted(Tail(log), id)

Quiescent == \A i \in 1..Len(tasks) : tasks[i].pc = "done"

\* rows a and b agree on field k
SameField(a, b, k) ==
    /\ (k \in DOMAIN a) = (k \in DOMAIN b)
    /\ k \in DOMAIN a => a[k] = b[k]

\* C14: is_mitigated of a record only ever goes from false to true: no write
\* sets it back to false.
C14_MitigatedNeverReset ==
    [][\A i \in 1..Len(store) :
           store[i].is_mitigated => (i <= Len(store') /\ store'[i].is_mitigated)]_vars

StatusStepOK(old, new) ==
    \/ new = old
    \/ old = "pending" /\ new = "analyzing"
    \/ old = "analyzing" /\ new \in {"complete", "failed"}

C16_Step ==
    app = "routes" =>
        /\ \A j \in 1..Len(store') :
               IF j <= Len(store) THEN StatusStepOK(store[j].status, store'[j].status)
               ELSE store'[j].status = "pending"
        /\ \A i \in 1..Len(tasks) :
               (tasks[i].pc = "in_council" /\ tasks'[i].pc = "done") =>
                   \A j \in Matching(store', tasks[i].test_id) :
                       /\ store'[j].status \in {"complete", "failed"}
                       /\ store'[j].status = "complete" =>
                              /\ store'[j].final_verdict \in Verdicts
                              /\ Len(store'[j].council_opinions) = 3

\* C16: the status of a stored record goes pending, analyzing, then complete
\* or failed, in this order, and the write that ends a run carries the status
\* and, when complete, the verdict and the opinions.
C16_StatusLifecycle == [][C16_Step]_vars

\* the row of id after one submission that ran to its end
ExpectedRow(id) ==
    IF app = "routes"
    THEN LET fields == final_fields(mock_analyze_diff(req_diff[id]))
         IN  WithFields(WithFields(routes_initial_row(id, req_diff[id]),
                                   [status |-> "analyzing"]),
                        IF IsRaised(fields) THEN error_fields(fields.raised) ELSE fields)
    ELSE WithFields(simple_main_initial_row(id, req_diff[id]),
                    simple_main_fields(req_diff[id]))

\* C17: after a second submission of the same id the store holds one record
\* for it, and once the runs are over its status, verdict, risk score,
\* opinions and is_mitigated are those after a single submission.
C17_SubmitIdempotent ==
    \A id \in TestIds :
        Submitted(http_log, id) >= 2 =>
            /\ Cardinality(Matching(store, id)) = 1
            /\ (Quiescent /\ \A k \in 1..Len(http_log) : http_log[k] # <<"mitigate", id, 200>>) =>
                   \A j \in Matching(store, id) :
                       \A f \in {"status", "final_verdict", "risk_score",
                                 "council_opinions", "is_mitigated"} :
                           SameField(store[j], ExpectedRow(id), f)

C18_Step ==
    (Len(http_log') = Len(http_log) + 1 /\ http_log'[Len(http_log')][1] = "mitigate") =>
        LET id == http_log'[Len(http_log')][2]
            code == http_log'[Len(http_log')][3]
        IN  IF \A j \in 1..Len(store) : store[j].test_id # id
            THEN code = 404 /\ store' = store
            ELSE /\ code = 200
                 /\ Len(store') = Len(store)
                 /\ \A j \in 1..Len(store) :
                        IF store[j].test_id = id
                        THEN /\ store'[j].is_mitigated = TRUE
                             /\ DOMAIN store'[j] = DOMAIN store[j]
                             /\ \A f \in DOMAIN store[j] \ {"is_mitigated", "updated_at"} :
                                    store'[j][f] = store[j][f]
                        ELSE store'[j] = store[j]

\* C18: mitigate on an id with no record answers 404 and leaves the store as
\* it is; mitigate on a known id answers 200, sets is_mitigated and changes no
\* other field of the record but updated_at, and no other record.
C18_MitigateTouchesOnlyFlag == [][C18_Step]_vars

\* C18 witness: a mitigate request on an id with no record was refused, and
\* one on a known id was answered 200 and left a completed record mitigated
\* with its verdict in place.
C18_Witness ==
    /\ \E k \in 1..Len(http_log) : http_log[k][1] = "mitigate" /\ http_log[k][3] = 404
    /\ \E k \in 1..Len(http_log) :
           /\ http_log[k][1] = "mitigate" /\ http_log[k][3] = 200
           /\ \E j \in Matching(store, http_log[k][2]) :
                  /\ store[j].is_mitigated
                  /\ store[j].status = "complete"
                  /\ store[j].final_verdict \in Verdicts


\* C35: when process_analysis gets a failed result from the council, the
\* record of the run is stored with status failed and with the error message
\* of that result.
C35_Step ==
    \A i \in 1..Len(tasks) :
        (tasks[i].pc = "in_council" /\ tasks'[i].pc = "done") =>
            LET final_state == mock_analyze_diff(req_diff[tasks[i].test_id])
            IN  final_state.status = "failed" =>
                    \A k \in Matching(store', tasks[i].test_id) :
                        /\ store'[k].status = "failed"
                        /\ Get(store'[k], "error_message", None) = final_state.error_message

C35_FailedRunKeepsCouncilMessage == [][C35_Step]_vars


\* the positions of the log where the analyze operation was asked for id
AnalyzeEvents(id) ==
    {k \in 1..Len(http_log) : http_log[k][1] = "analyze" /\ http_log[k][2] = id}

\* the engine logged a report under id and then triggered the orchestrator
\* for it, once
ReportedOnce(id) ==
    /\ http_log # <<>>
    /\ \E i \in 1..Len(http_log) :
           /\ http_log[i] = <<"log", id, 201>>
           /\ Cardinality(AnalyzeEvents(id)) = 1
           /\ \A k \in AnalyzeEvents(id) : k > i

\* C39: a report the engine logged and then sent to the orchestrator has
\* exactly one record in shadow_tests, the trigger is accepted, and it starts
\* one analysis run.
C39_OneRecordPerReport ==
    \A id \in TestIds :
        ReportedOnce(id) =>
            /\ Cardinality(Matching(store, id)) = 1
            /\ \A k \in AnalyzeEvents(id) : http_log[k][3] = 200
            /\ app = "routes" =>
                   Cardinality({t \in 1..Len(tasks) : tasks[t].test_id = id}) = 1

-----------------------------------------------------------------------------
(* The shadow engine: engine/shadow_engine.py, engine/utils.py *)

\* JSON values of a response. Numbers are held in thousandths; a string is the
\* sequence of its pieces of text (single characters, or a longer word).
IntV(n) == [type |-> "int", num |-> 1000 * n]
FloatV(thousandths) == [type |-> "float", num |-> thousandths]
StrV(chars) == [type |-> "str", chars |-> chars]
NoneV == [type |-> "NoneType"]

Digits == <<"0", "1", "2", "3", "4", "5", "6", "7", "8", "9">>
IsDigit(c) == \E i \in 1..Len(Digits) : Digits[i] = c
DigitValue(c) == (CHOOSE i \in 1..Len(Digits) : Digits[i] = c) - 1

\* the number a sequence of digits writes
RECURSIVE DigitsValue(_)
DigitsValue(ds) ==
    IF ds = <<>> THEN 0
    ELSE 10 * DigitsValue(SubSeq(ds, 1, Len(ds) - 1)) + DigitValue(ds[Len(ds)])

\* the fraction that up to three digits after the point write, in thousandths
FractionValue(ds) ==
    DigitsValue(ds \o [i \in 1..(3 - Len(ds)) |-> "0"])

ValueError == "ValueError"

\* float(s) for a string of digits, points and letters: thousandths, or ValueError
float_of_str(chars) ==
    LET dots == {i \in 1..Len(chars) : chars[i] = "."}
    IN  IF \/ Cardinality(dots) > 1
           \/ Len(chars) = Cardinality(dots)
           \/ \E i \in 1..Len(chars) : i \notin dots /\ ~IsDigit(chars[i])
        THEN Raised(ValueError)
        ELSE LET d == IF dots = {} THEN Len(chars) + 1 ELSE CHOOSE i \in dots : TRUE
             IN  [value |-> 1000 * DigitsValue(SubSeq(chars, 1, d - 1))
                            + FractionValue(SubSeq(chars, d + 1, Len(chars)))]

Abs(x) == IF x < 0 THEN -x ELSE x

\* 0.01, in thousandths
CLOSE_ENOUGH == 10

\* isinstance(v, (int, float))
IsNumber(v) == v.type \in {"int", "float"}

\* abs(float(number) - float(text)) < 0.01, False on ValueError
NumberNearText(number, text) ==
    LET f == float_of_str(text.chars)
    IN  IF IsRaised(f) THEN FALSE ELSE Abs(number.num - f.value) < CLOSE_ENOUGH

\* the check with a threshold that would let a difference of 0.01 pass
check_semantic_equivalence_inclusive(old, new) ==
    IF IsNumber(old) /\ IsNumber(new) THEN Abs(old.num - new.num) <= CLOSE_ENOUGH
    ELSE IF IsNumber(old) /\ new.type = "str" THEN
        LET f == float_of_str(new.chars)
        IN  IF IsRaised(f) THEN FALSE ELSE Abs(old.num - f.value) <= CLOSE_ENOUGH
    ELSE IF old.type = "str" /\ IsNumber(new) THEN
        LET f == float_of_str(old.chars)
        IN  IF IsRaised(f) THEN FALSE ELSE Abs(new.num - f.value) <= CLOSE_ENOUGH
    ELSE FALSE

\* utils.check_semantic_equivalence(old, new)
check_semantic_equivalence(old, new) ==
    IF IsNumber(old) /\ IsNumber(new) THEN Abs(old.num - new.num) < CLOSE_ENOUGH
    ELSE IF IsNumber(old) /\ new.type = "str" THEN NumberNearText(old, new)
    ELSE IF old.type = "str" /\ IsNumber(new) THEN NumberNearText(new, old)
    ELSE FALSE

ResponseKeys == {"price", "total", "status"}

\* the values a response may hold under each key
ValueOptions ==
    [price  |-> {IntV(100), FloatV(100000), FloatV(100005), FloatV(100010),
                 StrV(<<"1", "0", "0">>), StrV(<<"1", "0", "0", ".", "0">>),
                 StrV(<<"a", "b">>), NoneV},
     total  |-> {IntV(100), FloatV(100010), StrV(<<"1", "0", "0">>)},
     \* the last one is a text that holds the name of a DeepDiff category
     status |-> {StrV(<<"o", "k">>), StrV(<<"O", "K">>), StrV(<<"dictionary_item_removed">>)}]

AllValues == UNION {ValueOptions[k] : k \in ResponseKeys}

\* the responses: a dict over some of the keys ({} when there is none)
Responses ==
    {r \in UNION {[S -> AllValues] : S \in SUBSET ResponseKeys} :
        \A k \in DOMAIN r : r[k] \in ValueOptions[k]}

\* DeepDiff's path of a top-level key
PathOf == [price |-> "root['price']", total |-> "root['total']", status |-> "root['status']"]
KeyAt(path) == CHOOSE k \in ResponseKeys : PathOf[k] = path
Paths(K) == {PathOf[k] : k \in K}

\* a comparison that would look at the keys and at the types of the values only
DeepDiffOfTypes(t1, t2) ==
    LET both == DOMAIN t1 \cap DOMAIN t2
        entries ==
            [type_changes |->
                 [p \in Paths({k \in both : t1[k].type # t2[k].type}) |->
                      [old_type |-> t1[KeyAt(p)].type, new_type |-> t2[KeyAt(p)].type,
                       old_value |-> t1[KeyAt(p)], new_value |-> t2[KeyAt(p)]]],
             dictionary_item_removed |->
                 [p \in Paths(DOMAIN t1 \ DOMAIN t2) |-> TRUE],
             dictionary_item_added |->
                 [p \in Paths(DOMAIN t2 \ DOMAIN t1) |-> TRUE]]
    IN  [c \in {d \in DOMAIN entries : DOMAIN entries[d] # {}} |-> entries[c]]

\* DeepDiff(t1, t2, ignore_order=True) of two dicts of scalars, text view:
\* only the categories that have entries appear
DeepDiff(t1, t2) ==
    LET both == DOMAIN t1 \cap DOMAIN t2
        entries ==
            [type_changes |->
                 [p \in Paths({k \in both : t1[k].type # t2[k].type}) |->
                      [old_type |-> t1[KeyAt(p)].type, new_type |-> t2[KeyAt(p)].type,
                       old_value |-> t1[KeyAt(p)], new_value |-> t2[KeyAt(p)]]],
             values_changed |->
                 [p \in Paths({k \in both : t1[k].type = t2[k].type /\ t1[k] # t2[k]}) |->
                      [old_value |-> t1[KeyAt(p)], new_value |-> t2[KeyAt(p)]]],
             \* a set of paths, held as the function that is TRUE on its members
             dictionary_item_removed |->
                 [p \in Paths(DOMAIN t1 \ DOMAIN t2) |-> TRUE],
             dictionary_item_added |->
                 [p \in Paths(DOMAIN t2 \ DOMAIN t1) |-> TRUE]]
    IN  [c \in {d \in DOMAIN entries : DOMAIN entries[d] # {}} |-> entries[c]]

\* the body of a call that failed: _send_request returns (None, 0, str(e))
NoneResp == [none |-> TRUE]

\* bool(resp) is False: None or {}
Falsy(resp) == resp = NoneResp \/ resp = <<>>

\* line 104: the diff is taken only when both responses are truthy
initial_diff(legacy, headless) ==
    IF ~Falsy(legacy) /\ ~Falsy(headless) THEN DeepDiff(legacy, headless) ELSE <<>>

\* the words of str(diff): the names of its categories, its paths, and the
\* text of the old and new values of its type-change and value-change entries
ValueWords(v) == IF v.type = "str" THEN Range(v.chars) ELSE {v.type}
WordsOf(diff) ==
    DOMAIN diff
    \cup UNION {DOMAIN diff[c] : c \in DOMAIN diff}
    \cup UNION {ValueWords(diff[c][p].old_value) \cup ValueWords(diff[c][p].new_value) :
                   <<c, p>> \in {<<c, p>> \in (DOMAIN diff \cap {"type_changes", "values_changed"})
                                                  \X Paths(ResponseKeys) : p \in DOMAIN diff[c]}}

\* needle in word, for the words of the model
IsSubstring(needle, word) ==
    word = needle \/ (needle = "type_change" /\ word = "type_changes")

\* needle in str(diff)
in_diff_str(needle, diff) == \E word \in WordsOf(diff) : IsSubstring(needle, word)

\* lines 106-110: the flags, read off str(diff)
compute_flags(diff, legacy_time, headless_time_avg) ==
    (IF in_diff_str("type_change", diff) THEN <<"type_mismatch">> ELSE <<>>)
    \o (IF in_diff_str("dictionary_item_removed", diff) THEN <<"missing_key">> ELSE <<>>)
    \o (IF 2 * headless_time_avg > 3 * legacy_time
        THEN <<"performance_regression">> ELSE <<>>)

\* lines 111-124: the semantic check on diff["type_changes"]
semantic_check(diff) ==
    IF "type_changes" \in DOMAIN diff
    THEN LET type_changes == diff["type_changes"]
             keys_to_remove ==
                 {path \in DOMAIN type_changes :
                     check_semantic_equivalence(type_changes[path].old_value,
                                                type_changes[path].new_value)}
             kept == [path \in DOMAIN type_changes \ keys_to_remove |-> type_changes[path]]
         IN  IF DOMAIN kept = {}
             THEN [c \in DOMAIN diff \ {"type_changes"} |-> diff[c]]
             ELSE [c \in DOMAIN diff |-> IF c = "type_changes" THEN kept ELSE diff[c]]
    ELSE diff

\* the members of a set of paths as a list
RECURSIVE ListOf(_)
ListOf(S) ==
    IF S = {} THEN <<>>
    ELSE LET p == CHOOSE x \in S : TRUE IN <<p>> \o ListOf(S \ {p})

\* json.loads(d.to_json()): the sets of paths come back as lists, the entries
\* of the other categories as objects with the same members
json_round_trip(d) ==
    [c \in DOMAIN d |->
        IF c \in {"dictionary_item_removed", "dictionary_item_added"}
        THEN ListOf(DOMAIN d[c]) ELSE d[c]]

\* line 133: json.loads(diff.to_json()) if diff else {}. to_json serialises
\* either the dict the semantic check edited or the result rebuilt from the
\* comparison tree, which the edits do not reach.
diff_summary(original, diff, rebuilds) ==
    IF diff = <<>> THEN <<>>
    ELSE IF rebuilds THEN json_round_trip(original) ELSE json_round_trip(diff)

\* the bodies the legacy endpoint may answer
LegacyBodies ==
    {r \in Responses :
        \A k \in DOMAIN r : r[k] \in {IntV(100), StrV(<<"1", "0", "0">>), StrV(<<"o", "k">>)}}

\* request latencies, in milliseconds
LegacyTimes == {100}
HeadlessTimes == {100, 160}

\* run_shadow_replay(payload, merchant_id, retries=3)
retries == 3

\* str(uuid.uuid4())
request_id == "r1"

RECURSIVE Sum(_)
Sum(ts) == IF ts = <<>> THEN 0 ELSE Head(ts) + Sum(Tail(ts))

InitShadow ==
    /\ InitReg /\ InitFailover /\ IdleJudge /\ IdleCouncil /\ IdleStore
    /\ to_json_rebuilds \in BOOLEAN
    /\ legacy_body \in LegacyBodies
    /\ headless_body \in Responses
    /\ sh_pc = "legacy"
    /\ legacy_resp = <<>>
    /\ headless_resps = <<>>
    /\ headless_resp = <<>>
    /\ sh_times = <<0, 0>>
    /\ sh_sent = <<>>
    /\ sh_diff = <<>>
    /\ report = <<>>

\* line 61: _send_request(LEGACY_URL, payload) answered (resp.json(), elapsed,
\* None) or, on any exception, (None, 0, str(e))
SendLegacy(ok, time) ==
    /\ sh_pc = "legacy"
    /\ legacy_resp' = IF ok THEN legacy_body ELSE NoneResp
    /\ sh_times' = <<IF ok THEN time ELSE 0, 0>>
    /\ sh_pc' = "headless"
    /\ UNCHANGED <<to_json_rebuilds, legacy_body, headless_body, headless_resps, headless_resp,
                   sh_sent, sh_diff, report>>
    /\ UNCHANGED <<regVars, foVars, judgeVars, councilVars, storeVars>>

\* lines 64-68: one pass of `for _ in range(retries)`, which ends the loop
\* when `h_resp and not h_err`
SendHeadless(ok, time) ==
    /\ sh_pc = "headless"
    /\ Len(headless_resps) < retries
    /\ LET h_resp == IF ok THEN headless_body ELSE NoneResp
           h_err == IF ok THEN None ELSE "error"
           attempts == Append(headless_resps,
                              [resp |-> h_resp, time |-> IF ok THEN time ELSE 0, err |-> h_err])
       IN  /\ headless_resps' = attempts
           /\ sh_pc' = IF (~Falsy(h_resp) /\ h_err = None) \/ Len(attempts) = retries
                       THEN "report" ELSE "headless"
    /\ UNCHANGED <<to_json_rebuilds, legacy_body, headless_body, legacy_resp, headless_resp,
                   sh_times, sh_sent, sh_diff, report>>
    /\ UNCHANGED <<regVars, foVars, judgeVars, councilVars, storeVars>>

\* log_to_supabase("shadow_tests", report): the row handed to insert
shadow_tests_row(rep) ==
    [test_id |-> rep.request_id,
     legacy_response |-> rep.legacy_response,
     headless_response |-> rep.headless_response,
     diff_report |-> rep.diff_summary,
     status |-> "pending"]

\* trigger_council_analysis(report, merchant_id): the body of POST /api/analyze
analyze_request(rep) ==
    [test_id |-> rep.request_id,
     legacy_response |-> IF Falsy(rep.legacy_response) THEN <<>> ELSE rep.legacy_response,
     headless_response |-> IF Falsy(rep.headless_response) THEN <<>> ELSE rep.headless_response,
     diff_report |-> rep.diff_summary]

\* lines 94-146: from the attempts to the report, which is logged, sent to the
\* orchestrator and returned
BuildReport ==
    /\ sh_pc = "report"
    /\ LET valid_headless == SelectSeq(headless_resps, LAMBDA r : r.resp # NoneResp)
           h_resp == IF valid_headless # <<>> THEN valid_headless[1].resp ELSE NoneResp
           \* the times of the model divide exactly
           headless_time_avg ==
               IF valid_headless # <<>>
               THEN Sum([i \in 1..Len(valid_headless) |-> valid_headless[i].time])
                    \div Len(valid_headless)
               ELSE 0
           legacy_time == sh_times[1]
           original == initial_diff(legacy_resp, h_resp)
           flags == compute_flags(original, legacy_time, headless_time_avg)
           diff == semantic_check(original)
           rep == [request_id |-> request_id,
                   legacy_response |-> legacy_resp,
                   headless_response |-> h_resp,
                   diff_summary |-> diff_summary(original, diff, to_json_rebuilds),
                   flags |-> flags,
                   legacy_time |-> legacy_time,
                   headless_time |-> headless_time_avg,
                   retries_used |-> Len(headless_resps)]
       IN  /\ headless_resp' = h_resp
           /\ sh_times' = <<legacy_time, headless_time_avg>>
           /\ sh_diff' = diff
           /\ report' = rep
           /\ sh_sent' = << <<"insert", shadow_tests_row(rep)>>,
                           <<"post", analyze_request(rep)>> >>
    /\ sh_pc' = "done"
    /\ UNCHANGED <<to_json_rebuilds, legacy_body, headless_body, legacy_resp, headless_resps>>
    /\ UNCHANGED <<regVars, foVars, judgeVars, councilVars, storeVars>>

NextShadow ==
    \/ \E ok \in BOOLEAN, time \in LegacyTimes : SendLegacy(ok, time)
    \/ \E ok \in BOOLEAN, time \in HeadlessTimes : SendHeadless(ok, time)
    \/ BuildReport

SpecShadow == InitShadow /\ [][NextShadow]_vars

-----------------------------------------------------------------------------
(* Properties of the shadow engine *)

\* v read as a number, in thousandths: <<n>> or <<>> when it does not coerce
Coerced(v) ==
    IF v.type \in {"int", "float"} THEN <<v.num>>
    ELSE IF v.type = "str" /\ ~IsRaised(float_of_str(v.chars))
         THEN <<float_of_str(v.chars).value>>
    ELSE <<>>

\* two values of differing type that are numerically equal within 0.01
EqualButForType(a, b) ==
    /\ a.type # b.type
    /\ Coerced(a) # <<>> /\ Coerced(b) # <<>>
    /\ Abs(Coerced(a)[1] - Coerced(b)[1]) < 10

Entries_of(diff, category) == IF category \in DOMAIN diff THEN diff[category] ELSE <<>>

\* the keys both responses hold with values of differing type
TypeChangedKeys ==
    IF Falsy(legacy_resp) \/ Falsy(headless_resp) THEN {}
    ELSE {k \in DOMAIN legacy_resp \cap DOMAIN headless_resp :
             legacy_resp[k].type # headless_resp[k].type}

\* C19: a key whose two values differ in type but are numerically equal has no
\* type-change entry in the reported diff, and when that is so of every key
\* whose values differ in type, flags does not contain type_mismatch.
C19_EquivalentTypeChangeUnreported ==
    report # <<>> =>
        /\ \A k \in TypeChangedKeys :
               EqualButForType(legacy_resp[k], headless_resp[k]) =>
                   PathOf[k] \notin DOMAIN Entries_of(report.diff_summary, "type_changes")
        /\ (\A k \in TypeChangedKeys : EqualButForType(legacy_resp[k], headless_resp[k])) =>
               \A i \in 1..Len(report.flags) : report.flags[i] # "type_mismatch"

\* C20: after the semantic check the diff holds a type-change entry exactly
\* for the keys whose values differ in type and are not numerically equal
\* within 0.01 (they differ by 0.01 or more, or one does not coerce), each
\* as DeepDiff gave it, and the value-change, removed-key and added-key
\* entries are those DeepDiff gave.
C20_SuppressionIsExact ==
    report # <<>> =>
        LET original == initial_diff(legacy_resp, headless_resp)
            kept == Entries_of(sh_diff, "type_changes")
        IN  /\ DOMAIN kept =
                   Paths({k \in TypeChangedKeys :
                             ~EqualButForType(legacy_resp[k], headless_resp[k])})
            /\ \A p \in DOMAIN kept : kept[p] = original["type_changes"][p]
            /\ \A c \in {"values_changed", "dictionary_item_removed", "dictionary_item_added"} :
                   Entries_of(sh_diff, c) = Entries_of(original, c)
            /\ DOMAIN sh_diff \subseteq DOMAIN original

\* C20 witness: one run in which a type change within 0.01 was removed, a type
\* change of exactly 0.01 was kept, and a case-only string change was kept.
C20_Witness ==
    /\ report # <<>>
    /\ legacy_resp = [price |-> IntV(100), total |-> IntV(100), status |-> StrV(<<"o", "k">>)]
    /\ headless_resp = [price |-> StrV(<<"1", "0", "0", ".", "0">>), total |-> FloatV(100010),
                        status |-> StrV(<<"O", "K">>)]
    /\ DOMAIN sh_diff["type_changes"] = {PathOf["total"]}
    /\ DOMAIN sh_diff["values_changed"] = {PathOf["status"]}

HasFlag(f) == \E i \in 1..Len(report.flags) : report.flags[i] = f

\* the attempts on the headless endpoint that were answered
Answered == {i \in 1..Len(headless_resps) : headless_resps[i].err = None}

\* C21: flags contains missing_key exactly when the diff has a removed-key
\* entry, that is when both bodies were compared and some key of the legacy
\* body is absent from the headless body.
C21_MissingKeyIffRemoved ==
    report # <<>> =>
        (HasFlag("missing_key") <=>
            /\ ~Falsy(legacy_resp) /\ ~Falsy(headless_resp)
            /\ DOMAIN legacy_resp \ DOMAIN headless_resp # {})

\* C22: flags contains performance_regression exactly when both endpoints
\* answered and the mean headless latency is more than 1.5 times the legacy
\* latency; it is not set when the legacy call failed.
C22_PerformanceFlag ==
    report # <<>> =>
        (HasFlag("performance_regression") <=>
            /\ legacy_resp # NoneResp
            /\ Answered # {}
            /\ 2 * report.headless_time > 3 * report.legacy_time)

\* C23: the headless endpoint is called at most `retries` times and not again
\* after the first answered attempt, whatever its body: retries_used is the
\* index of that attempt and the reported response and latency are its own;
\* when no attempt is answered the response is None and retries_used = retries.
C23_StopsAtFirstSuccess ==
    report # <<>> =>
        /\ Len(headless_resps) <= retries
        /\ report.retries_used = Len(headless_resps)
        /\ IF Answered = {}
           THEN report.headless_response = NoneResp /\ report.retries_used = retries
           ELSE LET first == CHOOSE i \in Answered : \A j \in Answered : i <= j
                IN  /\ report.retries_used = first
                    /\ report.headless_response = headless_resps[first].resp
                    /\ report.headless_time = headless_resps[first].time

\* C24: diff_summary is empty exactly when flags holds no flag other than
\* performance_regression.
C24_FlagsFollowDiffSummary ==
    report # <<>> =>
        (report.diff_summary = <<>> <=>
            \A i \in 1..Len(report.flags) : report.flags[i] = "performance_regression")

\* C25: when both endpoints answered, identical bodies give an empty
\* diff_summary and no type_mismatch flag, a key with two values of the same
\* type that differ gives a diff_summary that is not empty, and in both cases
\* the report was handed to the store.
C25_ParityAndDiffReports ==
    (report # <<>> /\ legacy_resp # NoneResp /\ headless_resp # NoneResp) =>
        /\ legacy_resp = headless_resp =>
               report.diff_summary = <<>> /\ ~HasFlag("type_mismatch")
        /\ (\E k \in DOMAIN legacy_resp \cap DOMAIN headless_resp :
               /\ legacy_resp[k].type = headless_resp[k].type
               /\ legacy_resp[k] # headless_resp[k]) =>
               report.diff_summary # <<>>
        /\ \E i \in 1..Len(sh_sent) :
               /\ sh_sent[i][1] = "insert"
               /\ sh_sent[i][2].test_id = report.request_id
               /\ sh_sent[i][2].diff_report = report.diff_summary
               /\ sh_sent[i][2].legacy_response = report.legacy_response
               /\ sh_sent[i][2].headless_response = report.headless_response

\* C25 witness: both endpoints answered, the bodies differ only in the text
\* of one string, and the report with that value change was logged.
C25_Witness ==
    /\ report # <<>>
    /\ legacy_resp = [status |-> StrV(<<"o", "k">>)]
    /\ headless_resp = [status |-> StrV(<<"O", "K">>)]
    /\ DOMAIN report.diff_summary = {"values_changed"}
    /\ sh_sent[1] = <<"insert", shadow_tests_row(report)>>

=============================================================================
